---- MODULE Spec2Model ----
(***************************************************************************)
(* Model of src/app/src/hadoop/hadoop_cluster.py: the HadoopCluster        *)
(* orchestrator that provisions one master and num_workers workers on the  *)
(* compute provider, waits for their external addresses, warms the master  *)
(* up over the remote command channel and records progress in the          *)
(* datastore registry; its constructor, which resolves the cluster         *)
(* specification, and TeardownCluster, which deletes the instances and     *)
(* the ClusterInfo; and the two methods of GceApi that gce_api_test.py     *)
(* exercises.                                                              *)
(*                                                                         *)
(* Strings that the code builds by formatting are sequences of pieces, so  *)
(* that formatting is computed and two names are equal only when the code  *)
(* would build the same string.                                            *)
(***************************************************************************)
EXTENDS Integers, Sequences, FiniteSets, TLC

(***************************************************************************)
(* Bounds of the model.                                                    *)
(***************************************************************************)
\* Largest num_workers a cluster is constructed with.
MaxWorkers == 2

\* Attempt budgets of the two polling loops.  The source sets 60 and 20
\* (hadoop_cluster.py lines 79 and 81); the loops are checked with smaller
\* budgets and every statement about them names the budget.
INSTANCE_IP_ADDRESS_MAX_CHECK_TIMES == 3
MASTER_WARM_UP_MAX_CHECK_TIMES == 3

\* Attempt budget of the confirmation loop of TeardownCluster.  The source
\* sets 60 (hadoop_cluster.py line 83).
CLUSTER_SHUTDOWN_MAX_CHECK_TIMES == 2

\* The ListInstances calls of TeardownCluster are counted up to this number.
MaxCounted == 2

(***************************************************************************)
(* Class constants.                                                        *)
(***************************************************************************)
MASTER_NAME == "hadoop-master"
WORKER_NAME_CORE == "hadoop-worker"
PERSISTENT_DISK_SUFFIX == "-pd"
COMPUTE_STARTUP_SCRIPT == "startup-script.sh"
HADOOP_PATCH == "hadoop-1.2.1.patch"
DONE_FILE == "/var/log/STARTUP_SCRIPT_DONE"

\* INSTANCE_ROLES: role |-> the daemon commands of the role, in order.
INSTANCE_ROLES ==
  [r \in {"master", "worker"} |->
     IF r = "master" THEN <<"NameNode", "JobTracker">>
                     ELSE <<"DataNode", "TaskTracker">>]

\* datastore.ClusterStatus
ClusterStatus == [ERROR |-> "ERROR", READY |-> "READY",
                  TEARING_DOWN |-> "TEARING_DOWN"]

\* The status a ClusterInfo entity has when it is constructed without one.
ClusterStatusDefault == <<"PROVISIONING">>

(***************************************************************************)
(* Inputs the model draws from.                                            *)
(***************************************************************************)
Prefixes == {"managed", "test"}
Addresses == {"10.0.0.1", "10.0.0.2"}
\* Roles _StartInstance is called with when it is called on its own.
RoleInputs == {"master", "worker", "datanode", ""}
StatusCodes == {200, 500}

None == <<>>

(***************************************************************************)
(* Name formatting.                                                        *)
(***************************************************************************)
DigitChar(d) == <<"0", "1", "2", "3", "4", "5", "6", "7", "8", "9">>[d + 1]

RECURSIVE Decimal(_)
\* '%d' % n for n >= 0
Decimal(n) == IF n < 10 THEN <<DigitChar(n)>>
              ELSE Decimal(n \div 10) \o <<DigitChar(n % 10)>>

RECURSIVE ZeroPad(_, _)
ZeroPad(s, width) == IF Len(s) >= width THEN s ELSE ZeroPad(<<"0">> \o s, width)

\* '%03d' % n
Format03d(n) == ZeroPad(Decimal(n), 3)

\* self.master_name = self.prefix + '-' + self.MASTER_NAME
MasterName(p) == <<p, "-", MASTER_NAME>>

\* self.worker_name_template = '%s-%s-%%03d' % (prefix, WORKER_NAME_CORE)
WorkerNameTemplate(p) == <<p, "-", WORKER_NAME_CORE, "-", "%03d">>

\* self.worker_name_pattern = '^%s-%s-\\d+$' % (prefix, WORKER_NAME_CORE)
WorkerNamePattern(p) == <<"^", p, "-", WORKER_NAME_CORE, "-", "\\d+", "$">>

\* template % index: the '%03d' piece is replaced by the formatted index
FormatTemplate(template, index) ==
  SubSeq(template, 1, Len(template) - 1) \o Format03d(index)

VARIABLES
  entry,           \* the method the caller invoked on the orchestrator
  pc,              \* position of the control flow
  ret,             \* where the active helper call returns to
  prefix,          \* self.prefix
  num_workers,     \* self.num_workers
  i,               \* the index of the worker loops
  attempt,         \* iterations done by the active polling loop
  frame,           \* arguments and locals of the latest _StartInstance
  ip_name,         \* argument of the active _WaitForExternalIp
  ip_found,        \* value returned by the last _WaitForExternalIp
  exc,             \* message of the ClusterSetUpError raised, or None
  cluster_info,    \* the ClusterInfo entity in the registry, or None
  instance_infos,  \* the InstanceInfo entities in the registry, in put order
  instances,       \* self.instances (its keys)
  uuid_count,      \* number of uuid4 values drawn so far
  gce_instances,   \* instances the provider accepted, with their metadata
  gce_disks,       \* persistent disks that exist at the provider
  log,             \* calls made to the collaborators, in order
  ip_results,      \* what the provider answered to each poll of ip_name
  warm_results,    \* what the channel answered to each warm-up poll
  ctor,            \* what __init__ was called with, and the entity it read
  self_fields,     \* the other fields __init__ resolves (project, zone, ...)
  instance_names,  \* the local instance_names of TeardownCluster
  gce_deleting,    \* instances whose deletion the provider has accepted
  teardown_calls,  \* provider calls made by TeardownCluster, counted
  api              \* the GceApi call made on its own, and what it returned

ctor_vars == <<ctor, self_fields>>
teardown_vars == <<instance_names, gce_deleting, teardown_calls>>

vars == <<entry, pc, ret, prefix, num_workers, i, attempt, frame, ip_name,
          ip_found, exc, cluster_info, instance_infos, instances, uuid_count,
          gce_instances, gce_disks, log, ip_results, warm_results,
          ctor_vars, teardown_vars, api>>

\* The attributes __init__ derives from the prefix.
master_name == self_fields.master_name
worker_name_template == self_fields.worker_name_template
worker_name_pattern == self_fields.worker_name_pattern

\* _WorkerName(index)
WorkerName(index) == FormatTemplate(worker_name_template, index)

(***************************************************************************)
(* Helpers.                                                                *)
(***************************************************************************)
Range(s) == {s[k] : k \in 1..Len(s)}

\* Provider operations and the polling operations among the logged calls.
ProviderOps == {"GetDisk", "CreatePersistentDisk", "CreateInstance",
                "GetInstance"}
PollOps == {"GetInstance", "HttpRequest"}

Event(op, arg) == [op |-> op, arg |-> arg]

\* The log after call e.  A poll repeated with the same argument right after
\* itself is logged once; the polls of a loop are counted by ip_results and
\* warm_results.
Logged(l, e) ==
  IF e.op \in PollOps /\ Len(l) > 0 /\ l[Len(l)] = e THEN l ELSE Append(l, e)

NoFrame == [instance_name |-> None, role |-> "", persistent_disk |-> FALSE,
            persistent_disk_name |-> None, machinetype |-> None,
            disk_id |-> None, rpckey |-> None, metadata |-> None]

\* self.machinetype and self.custom_command, as __init__ resolved them.
machinetype == self_fields.machinetype
custom_command == self_fields.custom_command

\* _GetTmpCloudStorage(): '%s/hadoop' % cloud_storage_bucket
TmpCloudStorage == <<"bucket", "/hadoop">>

\* str(uuid.uuid4()): the n-th value drawn differs from every other one
Uuid4(n) == <<"uuid", "-">> \o Decimal(n)

(***************************************************************************)
(* The registry (datastore.ClusterInfo, datastore.InstanceInfo).           *)
(***************************************************************************)
NoClusterInfo == [stored |-> FALSE, status |-> None, master |-> 0]

\* ClusterInfo(...).put(): a new entity with the default status
NewClusterInfo == [stored |-> TRUE, status |-> ClusterStatusDefault,
                   master |-> 0]

\* ClusterInfo.SetStatus(status)
SetStatus(ci, status) == [ci EXCEPT !.status = status]

\* ClusterInfo.SetMasterInstance(instance): keeps the entity's key, which is
\* its position in instance_infos
SetMasterInstance(ci, key) == [ci EXCEPT !.master = key]

\* InstanceInfo(parent, name, role, rpckey): external_ip is not set yet
InstanceInfo(name, role, rpckey) ==
  [name |-> name, role |-> role, rpckey |-> rpckey, external_ip |-> "None"]

\* InstanceInfo.GetByName(name): key of the first entity of that name, 0 if
\* there is none
GetByName(infos, name) ==
  IF \E k \in 1..Len(infos) : infos[k].name = name
  THEN CHOOSE k \in 1..Len(infos) :
         /\ infos[k].name = name
         /\ \A j \in 1..(k - 1) : infos[j].name /= name
  ELSE 0

\* entity.external_ip = ip; entity.put()
PutExternalIp(infos, key, ip) == [infos EXCEPT ![key].external_ip = ip]

\* ClusterInfo.SetMasterIpAddress(ip): writes the address to the master's
\* InstanceInfo
SetMasterIpAddress(ci, infos, ip) == PutExternalIp(infos, ci.master, ip)

(***************************************************************************)
(* GceApi (gce_api.py), as gce_api_test.py exercises it and as the         *)
(* orchestrator calls it.                                                  *)
(***************************************************************************)
\* What instances().get(...).execute() does: it returns the descriptor, or
\* raises HttpError whose resp carries the status.
HttpOk(body) == [status |-> 200, body |-> <<body>>]
HttpError(status) == [status |-> status, body |-> None]

\* Faulty variant: not found is raised to the caller.
GetInstance_NotFoundRaises(response) ==
  [value |-> response.body,
   requests |-> 1,
   raised |-> response.status = 404]

\* Faulty variant: a response with warnings counts as failed.
CreateInstance_WarningsFail(response) ==
  [value |-> "error" \notin DOMAIN response
               /\ "warnings" \notin DOMAIN response,
   requests |-> 1,
   raised |-> FALSE]

\* GceApi.GetInstance(name): the request is executed once; not found (404)
\* gives None, otherwise the descriptor is returned.
GetInstance(response) ==
  [value |-> IF response.status = 404 THEN None ELSE response.body,
   requests |-> 1,
   raised |-> FALSE]

\* GceApi.CreateInstance(...): the insert request is executed once and the
\* operation it returns is classified by its 'error' key.
CreateInstance(response) ==
  [value |-> "error" \notin DOMAIN response,
   requests |-> 1,
   raised |-> FALSE]

\* A call of GceApi: the method, what the provider answered, and the
\* result, None while the call has not returned.
ApiCall(op, response, result) ==
  [op |-> op, response |-> response, result |-> result]

NoApiCall == ApiCall("none", None, None)

\* The call the orchestrator made last: the status of the answer and the
\* result without the descriptor it carries.
Called(op, response, result) ==
  ApiCall(op, [status |-> response.status],
          <<[result EXCEPT
               !.value = IF @ = None THEN None ELSE <<"descriptor">>]>>)

\* The provider's view of the filter 'name eq "<master>|<pattern>"': the
\* names it selects.
IsDigit(c) == c \in {DigitChar(d) : d \in 0..9}

MatchesPattern(name, pattern) ==
  LET literal == SubSeq(pattern, 2, Len(pattern) - 2)
  IN /\ Len(name) > Len(literal)
     /\ SubSeq(name, 1, Len(literal)) = literal
     /\ \A k \in (Len(literal) + 1)..Len(name) : IsDigit(name[k])

Selected(filter, name) ==
  IF name = filter.exact THEN TRUE ELSE MatchesPattern(name, filter.pattern)

\* GceApi.ListInstances(filter): the descriptors of the instances the
\* provider holds that the filter selects.
ListInstances(held, filter) ==
  SelectSeq(held, LAMBDA instance : Selected(filter, instance.name))

(***************************************************************************)
(* __init__(http, cluster_id, project, name, prefix, zone, machinetype,    *)
(*          image, network, num_workers, custom_command)                   *)
(***************************************************************************)
\* The items the loop of __init__ sets, in its order.
SpecItems == <<"prefix", "project", "name", "zone", "machinetype", "image",
               "network", "num_workers", "custom_command">>

\* Arguments a caller passes for the items.
CallerArgs(p, n) ==
  [prefix |-> p, project |-> "project-a", name |-> "cluster-a",
   zone |-> "zone-a", machinetype |-> "n1-standard-1", image |-> "image-a",
   network |-> "network-a", num_workers |-> n, custom_command |-> ""]

\* datastore.ClusterInfo.get_by_id(cluster_id) found nothing.
NoEntity == [exists |-> FALSE, items |-> None, info |-> NoClusterInfo]

\* The constructor call: its cluster_id, its other arguments, and what the
\* registry holds under the id.
ConstructorCall(cluster_id, args, entity) ==
  [cluster_id |-> cluster_id, args |-> args, entity |-> entity]

\* self.cluster_info after lines 95-97: the entity is read only when
\* cluster_id is truthy, and is None when the registry has none.
GetById(c) ==
  IF c.cluster_id /= None /\ c.entity.exists THEN c.entity.info
  ELSE NoClusterInfo

\* The value the loop of lines 99-104 sets for one item.
ItemValue(c, item) ==
  IF GetById(c).stored THEN c.entity.items[item] ELSE c.args[item]

\* The attributes set by lines 99-116 apart from prefix and num_workers.
SelfFields(c) ==
  [project |-> ItemValue(c, "project"),
   name |-> ItemValue(c, "name"),
   zone |-> ItemValue(c, "zone"),
   machinetype |-> ItemValue(c, "machinetype"),
   image |-> ItemValue(c, "image"),
   network |-> ItemValue(c, "network"),
   custom_command |-> ItemValue(c, "custom_command"),
   master_name |-> MasterName(ItemValue(c, "prefix")),
   worker_name_template |-> WorkerNameTemplate(ItemValue(c, "prefix")),
   worker_name_pattern |-> WorkerNamePattern(ItemValue(c, "prefix"))]

\* The attributes of an object __init__ has not run on.
NoFields == [f \in DOMAIN SelfFields(ConstructorCall(None, CallerArgs("", 0),
                                                    NoEntity)) |-> None]

\* Faulty variant: the caller's arguments win over the entity.
Construct_ArgumentsFirst ==
  /\ pc = "__init__"
  /\ cluster_info' = GetById(ctor)
  /\ prefix' = ctor.args.prefix
  /\ num_workers' = ctor.args.num_workers
  /\ self_fields' = SelfFields([ctor EXCEPT !.cluster_id = None])
  /\ instances' = {}
  /\ pc' = "constructed"
  /\ UNCHANGED <<entry, ret, i, attempt, frame, ip_name, ip_found, exc,
                 instance_infos, uuid_count, gce_instances, gce_disks, log,
                 ip_results, warm_results, ctor, teardown_vars, api>>

\* Lines 91-118: the whole constructor.
Construct ==
  /\ pc = "__init__"
  /\ cluster_info' = GetById(ctor)
  /\ prefix' = ItemValue(ctor, "prefix")
  /\ num_workers' = ItemValue(ctor, "num_workers")
  /\ self_fields' = SelfFields(ctor)
  /\ instances' = {}
  /\ pc' = "constructed"
  /\ UNCHANGED <<entry, ret, i, attempt, frame, ip_name, ip_found, exc,
                 instance_infos, uuid_count, gce_instances, gce_disks, log,
                 ip_results, warm_results, ctor, teardown_vars, api>>

\* The caller starts the cluster of an orchestrator that loaded no entity.
Call_StartHadoopCluster ==
  /\ pc = "constructed"
  /\ ~cluster_info.stored
  /\ entry' = "StartHadoopCluster"
  /\ pc' = "StartHadoopCluster"
  /\ UNCHANGED <<ret, prefix, num_workers, i, attempt, frame, ip_name,
                 ip_found, exc, cluster_info, instance_infos, instances,
                 uuid_count, gce_instances, gce_disks, log, ip_results,
                 warm_results, ctor_vars, teardown_vars, api>>

\* The caller tears down the cluster whose entity the orchestrator loaded.
Call_TeardownCluster ==
  /\ pc = "constructed"
  /\ cluster_info.stored
  /\ entry' = "TeardownCluster"
  /\ pc' = "TeardownCluster"
  /\ UNCHANGED <<ret, prefix, num_workers, i, attempt, frame, ip_name,
                 ip_found, exc, cluster_info, instance_infos, instances,
                 uuid_count, gce_instances, gce_disks, log, ip_results,
                 warm_results, ctor_vars, teardown_vars, api>>

(***************************************************************************)
(* raise ClusterSetUpError(msg): caught by the except clause of            *)
(* StartHadoopCluster, or propagated to the caller when _StartInstance was *)
(* called on its own.                                                      *)
(***************************************************************************)
Raise(msg) ==
  /\ exc' = msg
  /\ pc' = IF entry = "StartHadoopCluster" THEN "except" ELSE "raised"

(***************************************************************************)
(* _StartInstance(instance_name, role, persistent_disk)                    *)
(***************************************************************************)
\* The call: instance_name, role and persistent_disk become the frame.
Call_StartInstance(name, role, pd, return_to) ==
  /\ frame' = [NoFrame EXCEPT !.instance_name = name, !.role = role,
                              !.persistent_disk = pd]
  /\ ret' = return_to
  /\ pc' = "StartInstance"

\* Lines 173-183: the disk name, machine type and disk id of the two modes.
StartInstance_Disk ==
  /\ pc = "StartInstance"
  /\ IF frame.persistent_disk
       THEN /\ frame' = [frame EXCEPT
                 !.persistent_disk_name =
                     frame.instance_name \o <<PERSISTENT_DISK_SUFFIX>>,
                 !.machinetype = <<machinetype>>,
                 !.disk_id = frame.instance_name \o <<PERSISTENT_DISK_SUFFIX>>]
            /\ pc' = "MaybeCreatePersistentDisk"
       ELSE /\ frame' = [frame EXCEPT
                 !.machinetype = <<machinetype, "-d">>,
                 !.disk_id = <<"ephemeral-disk-0">>]
            /\ pc' = "StartInstance_Metadata"
  /\ UNCHANGED <<entry, ret, prefix, num_workers, i, attempt, ip_name,
                 ip_found, exc, cluster_info, instance_infos, instances,
                 uuid_count, gce_instances, gce_disks, log, ip_results,
                 warm_results>>
  /\ UNCHANGED <<ctor_vars, teardown_vars, api>>

\* Faulty variant: the disk is created whether or not GetDisk found it.
MaybeCreatePersistentDisk_AlwaysCreates ==
  /\ pc = "MaybeCreatePersistentDisk"
  /\ LET disk_name == frame.persistent_disk_name
         afterGet == Logged(log, Event("GetDisk", disk_name))
     IN \E created \in BOOLEAN :
          /\ log' = Logged(afterGet, Event("CreatePersistentDisk", disk_name))
          /\ IF created
               THEN /\ gce_disks' = gce_disks \cup {disk_name}
                    /\ pc' = "StartInstance_Metadata"
                    /\ UNCHANGED exc
               ELSE /\ Raise(<<"Failed to create persistent disk ">>
                             \o disk_name)
                    /\ UNCHANGED gce_disks
  /\ UNCHANGED <<entry, ret, prefix, num_workers, i, attempt, frame, ip_name,
                 ip_found, cluster_info, instance_infos, instances,
                 uuid_count, gce_instances, ip_results, warm_results>>
  /\ UNCHANGED <<ctor_vars, teardown_vars, api>>

\* _MaybeCreatePersistentDisk, lines 141-151: GetDisk, and CreatePersistentDisk
\* when the disk does not exist; created tells what CreatePersistentDisk
\* returns.
MaybeCreatePersistentDisk ==
  /\ pc = "MaybeCreatePersistentDisk"
  /\ LET disk_name == frame.persistent_disk_name
         afterGet == Logged(log, Event("GetDisk", disk_name))
     IN IF disk_name \in gce_disks
          THEN /\ log' = afterGet
               /\ pc' = "StartInstance_Metadata"
               /\ UNCHANGED <<gce_disks, exc>>
          ELSE \E created \in BOOLEAN :
                 /\ log' = Logged(afterGet,
                                  Event("CreatePersistentDisk", disk_name))
                 /\ IF created
                      THEN /\ gce_disks' = gce_disks \cup {disk_name}
                           /\ pc' = "StartInstance_Metadata"
                           /\ UNCHANGED exc
                      ELSE /\ Raise(<<"Failed to create persistent disk ">>
                                    \o disk_name)
                           /\ UNCHANGED gce_disks
  /\ UNCHANGED <<entry, ret, prefix, num_workers, i, attempt, frame, ip_name,
                 ip_found, cluster_info, instance_infos, instances,
                 uuid_count, gce_instances, ip_results, warm_results>>
  /\ UNCHANGED <<ctor_vars, teardown_vars, api>>

\* Lines 189-201: the metadata every instance gets.
Metadata(rpckey, disk_id) ==
  ("startup-script-url" :> (TmpCloudStorage \o <<"/", COMPUTE_STARTUP_SCRIPT>>))
  @@ ("rpckey" :> rpckey)
  @@ ("disk-id" :> (<<"google-">> \o disk_id))
  @@ ("hostname-prefix" :> prefix)
  @@ ("num-workers" :> num_workers)
  @@ ("hadoop-master" :> master_name)
  @@ ("hadoop-worker-template" :> worker_name_template)
  @@ ("tmp-cloud-storage" :> TmpCloudStorage)
  @@ ("custom-command" :> custom_command)
  @@ ("hadoop-patch" :> HADOOP_PATCH)

\* Lines 205-206: metadata[command] = 1 for every command of the role.
WithCommands(metadata, commands) ==
  [k \in DOMAIN metadata \cup Range(commands) |->
     IF k \in Range(commands) THEN 1 ELSE metadata[k]]

\* Lines 187-206: a fresh rpckey, the metadata, and the check of the role.
StartInstance_Metadata ==
  /\ pc = "StartInstance_Metadata"
  /\ uuid_count' = uuid_count + 1
  /\ LET rpckey == Uuid4(uuid_count + 1)
         metadata == Metadata(rpckey, frame.disk_id)
     IN IF frame.role \notin DOMAIN INSTANCE_ROLES
          THEN /\ frame' = [frame EXCEPT !.rpckey = rpckey,
                                         !.metadata = metadata]
               /\ Raise(<<"Invalid instance role name: ", frame.role>>)
          ELSE /\ frame' = [frame EXCEPT
                    !.rpckey = rpckey,
                    !.metadata = WithCommands(metadata,
                                              INSTANCE_ROLES[frame.role])]
               /\ pc' = "StartInstance_Create"
               /\ UNCHANGED exc
  /\ UNCHANGED <<entry, ret, prefix, num_workers, i, attempt, ip_name,
                 ip_found, cluster_info, instance_infos, instances,
                 gce_instances, gce_disks, log, ip_results, warm_results>>
  /\ UNCHANGED <<ctor_vars, teardown_vars, api>>

\* Faulty variant: the value CreateInstance returns is not looked at.
StartInstance_CreateUnchecked ==
  /\ pc = "StartInstance_Create"
  /\ log' = Logged(log, Event("CreateInstance", frame.instance_name))
  /\ \E accepted \in BOOLEAN :
       gce_instances' =
         IF accepted
           THEN Append(gce_instances,
                  [name |-> frame.instance_name,
                   machinetype |-> frame.machinetype,
                   persistent_disk |-> frame.persistent_disk_name,
                   metadata |-> frame.metadata])
           ELSE gce_instances
  /\ pc' = "StartInstance_Put"
  /\ UNCHANGED <<entry, ret, prefix, num_workers, i, attempt, frame, ip_name,
                 ip_found, exc, cluster_info, instance_infos, instances,
                 uuid_count, gce_disks, ip_results, warm_results>>
  /\ UNCHANGED <<ctor_vars, teardown_vars, api>>

\* Lines 208-219: CreateInstance; accepted tells what the provider returns.
StartInstance_Create ==
  /\ pc = "StartInstance_Create"
  /\ log' = Logged(log, Event("CreateInstance", frame.instance_name))
  /\ \E accepted \in BOOLEAN :
       IF accepted
         THEN /\ gce_instances' = Append(gce_instances,
                   [name |-> frame.instance_name,
                    machinetype |-> frame.machinetype,
                    persistent_disk |-> frame.persistent_disk_name,
                    metadata |-> frame.metadata])
              /\ pc' = "StartInstance_Put"
              /\ UNCHANGED exc
         ELSE /\ Raise(<<"Failed to start instance ">> \o frame.instance_name)
              /\ UNCHANGED gce_instances
  /\ UNCHANGED <<entry, ret, prefix, num_workers, i, attempt, frame, ip_name,
                 ip_found, cluster_info, instance_infos, instances,
                 uuid_count, gce_disks, ip_results, warm_results>>
  /\ UNCHANGED <<ctor_vars, teardown_vars, api>>

\* Faulty variant: every InstanceInfo is attached as the master of the cluster.
StartInstance_PutAttachesAny ==
  /\ pc = "StartInstance_Put"
  /\ instance_infos' = Append(instance_infos,
         InstanceInfo(frame.instance_name, frame.role, frame.rpckey))
  /\ log' = Logged(log, Event("InstanceInfo.put", frame.instance_name))
  /\ cluster_info' = SetMasterInstance(cluster_info, Len(instance_infos) + 1)
  /\ instances' = instances \cup {frame.instance_name}
  /\ pc' = ret
  /\ ret' = "done"
  /\ UNCHANGED <<entry, prefix, num_workers, i, attempt, frame, ip_name,
                 ip_found, exc, uuid_count, gce_instances, gce_disks,
                 ip_results, warm_results>>
  /\ UNCHANGED <<ctor_vars, teardown_vars, api>>

\* Faulty variant: the InstanceInfo gets a key drawn anew, not the one that
\* went into the metadata.
StartInstance_PutDrawsNewKey ==
  /\ pc = "StartInstance_Put"
  /\ instance_infos' = Append(instance_infos,
         InstanceInfo(frame.instance_name, frame.role,
                      Uuid4(uuid_count + 1)))
  /\ uuid_count' = uuid_count + 1
  /\ log' = Logged(log, Event("InstanceInfo.put", frame.instance_name))
  /\ cluster_info' = IF frame.role = "master"
                       THEN SetMasterInstance(cluster_info,
                                              Len(instance_infos) + 1)
                       ELSE cluster_info
  /\ instances' = instances \cup {frame.instance_name}
  /\ pc' = ret
  /\ ret' = "done"
  /\ UNCHANGED <<entry, prefix, num_workers, i, attempt, frame, ip_name,
                 ip_found, exc, gce_instances, gce_disks,
                 ip_results, warm_results>>
  /\ UNCHANGED <<ctor_vars, teardown_vars, api>>

\* Lines 220-226: the InstanceInfo is put, the master's is attached to the
\* cluster, and the call returns.
StartInstance_Put ==
  /\ pc = "StartInstance_Put"
  /\ instance_infos' = Append(instance_infos,
         InstanceInfo(frame.instance_name, frame.role, frame.rpckey))
  /\ log' = Logged(log, Event("InstanceInfo.put", frame.instance_name))
  /\ cluster_info' = IF frame.role = "master"
                       THEN SetMasterInstance(cluster_info,
                                              Len(instance_infos) + 1)
                       ELSE cluster_info
  /\ instances' = instances \cup {frame.instance_name}
  /\ pc' = ret
  /\ ret' = "done"
  /\ UNCHANGED <<entry, prefix, num_workers, i, attempt, frame, ip_name,
                 ip_found, exc, uuid_count, gce_instances, gce_disks,
                 ip_results, warm_results>>
  /\ UNCHANGED <<ctor_vars, teardown_vars, api>>

(***************************************************************************)
(* StartHadoopCluster: the ClusterInfo, the master, the workers.           *)
(***************************************************************************)
\* Faulty variant: the ClusterInfo is constructed and not put.
StartHadoopCluster_NoPut ==
  /\ pc = "StartHadoopCluster"
  /\ pc' = "StartMaster"
  /\ UNCHANGED <<entry, ret, prefix, num_workers, i, attempt, frame, ip_name,
                 ip_found, exc, cluster_info, instance_infos, instances,
                 uuid_count, gce_instances, gce_disks, log, ip_results,
                 warm_results>>
  /\ UNCHANGED <<ctor_vars, teardown_vars, api>>

\* Lines 330-335: the ClusterInfo is constructed and put.
StartHadoopCluster_Put ==
  /\ pc = "StartHadoopCluster"
  /\ cluster_info' = NewClusterInfo
  /\ log' = Logged(log, Event("ClusterInfo.put", None))
  /\ pc' = "StartMaster"
  /\ UNCHANGED <<entry, ret, prefix, num_workers, i, attempt, frame, ip_name,
                 ip_found, exc, instance_infos, instances, uuid_count,
                 gce_instances, gce_disks, ip_results, warm_results>>
  /\ UNCHANGED <<ctor_vars, teardown_vars, api>>

\* _StartMaster, lines 318-320.
StartMaster ==
  /\ pc = "StartMaster"
  /\ Call_StartInstance(master_name, "master", FALSE, "StartWorkers")
  /\ i' = 0
  /\ UNCHANGED <<entry, prefix, num_workers, attempt, ip_name, ip_found, exc,
                 cluster_info, instance_infos, instances, uuid_count,
                 gce_instances, gce_disks, log, ip_results, warm_results>>
  /\ UNCHANGED <<ctor_vars, teardown_vars, api>>

\* Faulty variant: the loop runs once more than num_workers times.
StartWorkers_OneTooMany ==
  /\ pc = "StartWorkers"
  /\ IF i <= num_workers
       THEN /\ Call_StartInstance(WorkerName(i), "worker", FALSE,
                                  "StartWorkers")
            /\ i' = i + 1
       ELSE /\ pc' = "WaitForInstances"
            /\ i' = 0
            /\ UNCHANGED <<frame, ret>>
  /\ UNCHANGED <<entry, prefix, num_workers, attempt, ip_name, ip_found, exc,
                 cluster_info, instance_infos, instances, uuid_count,
                 gce_instances, gce_disks, log, ip_results, warm_results>>
  /\ UNCHANGED <<ctor_vars, teardown_vars, api>>

\* _StartWorkers, lines 322-325: the next worker, or on to _WaitForInstances.
StartWorkers ==
  /\ pc = "StartWorkers"
  /\ IF i < num_workers
       THEN /\ Call_StartInstance(WorkerName(i), "worker", FALSE,
                                  "StartWorkers")
            /\ i' = i + 1
       ELSE /\ pc' = "WaitForInstances"
            /\ i' = 0
            /\ UNCHANGED <<frame, ret>>
  /\ UNCHANGED <<entry, prefix, num_workers, attempt, ip_name, ip_found, exc,
                 cluster_info, instance_infos, instances, uuid_count,
                 gce_instances, gce_disks, log, ip_results, warm_results>>
  /\ UNCHANGED <<ctor_vars, teardown_vars, api>>

\* Lines 339-341: the except clause records 'ERROR: <message>'.
Except_ClusterSetUpError ==
  /\ pc = "except"
  /\ cluster_info' = SetStatus(cluster_info,
                               <<ClusterStatus.ERROR, ": ">> \o exc)
  /\ log' = Logged(log, Event("ClusterInfo.SetStatus", None))
  /\ pc' = "done"
  /\ UNCHANGED <<entry, ret, prefix, num_workers, i, attempt, frame, ip_name,
                 ip_found, exc, instance_infos, instances, uuid_count,
                 gce_instances, gce_disks, ip_results, warm_results>>
  /\ UNCHANGED <<ctor_vars, teardown_vars, api>>

(***************************************************************************)
(* _WaitForExternalIp(instance_name)                                       *)
(***************************************************************************)
\* Descriptors GetInstance can return for an instance that has no external
\* address (yet).
DescriptorsLackingAddress(name) ==
  { [name |-> name],
    [name |-> name, networkInterfaces |-> <<>>],
    [name |-> name, networkInterfaces |-> <<[network |-> "default"]>>],
    [name |-> name,
     networkInterfaces |-> <<[network |-> "default", accessConfigs |-> <<>>]>>],
    [name |-> name,
     networkInterfaces |->
       <<[network |-> "default",
          accessConfigs |-> <<[type |-> "ONE_TO_ONE_NAT"]>>]>>] }

\* Descriptors whose first access configuration of the first interface
\* carries the external address ip.
DescriptorsWithAddress(name, ip) ==
  { [name |-> name,
     networkInterfaces |->
       <<[network |-> "default",
          accessConfigs |-> <<[type |-> "ONE_TO_ONE_NAT", natIP |-> ip]>>]>>] }
  \cup
  { [name |-> name,
     networkInterfaces |->
       <<[network |-> "default",
          accessConfigs |-> <<[type |-> "ONE_TO_ONE_NAT", natIP |-> ip],
                              [type |-> "ONE_TO_ONE_NAT", natIP |-> other]>>],
         [network |-> "second",
          accessConfigs |-> <<[type |-> "ONE_TO_ONE_NAT", natIP |-> other]>>]>>]
      : other \in Addresses \ {ip} }

\* What the provider can answer to the get request of GetInstance(name),
\* and, as truth, what it holds: "absent", "noaddr" or the external address.
GetInstanceAnswers(name) ==
  {[response |-> HttpError(404), truth |-> "absent"]}
  \cup {[response |-> HttpOk(d), truth |-> "noaddr"] :
          d \in DescriptorsLackingAddress(name)}
  \cup UNION {{[response |-> HttpOk(d), truth |-> ip] :
                 d \in DescriptorsWithAddress(name, ip)} : ip \in Addresses}

\* Faulty variant: the last access configuration is read in place of the first.
NatIP_LastAccessConfig(instance) ==
  IF /\ "networkInterfaces" \in DOMAIN instance
     /\ Len(instance.networkInterfaces) >= 1
     /\ "accessConfigs" \in DOMAIN instance.networkInterfaces[1]
     /\ Len(instance.networkInterfaces[1].accessConfigs) >= 1
     /\ LET configs == instance.networkInterfaces[1].accessConfigs
        IN "natIP" \in DOMAIN configs[Len(configs)]
  THEN LET configs == instance.networkInterfaces[1].accessConfigs
       IN <<configs[Len(configs)].natIP>>
  ELSE None

\* Lines 276-279: instance['networkInterfaces'][0]['accessConfigs'][0]['natIP'],
\* <<ip>> when every key and index exists and None on KeyError or IndexError.
NatIP(instance) ==
  IF /\ "networkInterfaces" \in DOMAIN instance
     /\ Len(instance.networkInterfaces) >= 1
     /\ "accessConfigs" \in DOMAIN instance.networkInterfaces[1]
     /\ Len(instance.networkInterfaces[1].accessConfigs) >= 1
     /\ "natIP" \in DOMAIN instance.networkInterfaces[1].accessConfigs[1]
  THEN <<instance.networkInterfaces[1].accessConfigs[1].natIP>>
  ELSE None

Call_WaitForExternalIp(name, return_to) ==
  /\ ip_name' = name
  /\ attempt' = 0
  /\ ip_results' = <<>>
  /\ ret' = return_to
  /\ pc' = "WaitForExternalIp"

\* Lines 273-280: one iteration of the loop: GetInstance, then the address is
\* returned or the loop sleeps.
WaitForExternalIp_Poll ==
  /\ pc = "WaitForExternalIp"
  /\ attempt < INSTANCE_IP_ADDRESS_MAX_CHECK_TIMES
  /\ attempt' = attempt + 1
  /\ log' = Logged(log, Event("GetInstance", ip_name))
  /\ \E answer \in GetInstanceAnswers(ip_name) :
       LET instance == GetInstance(answer.response).value
           nat_ip == IF Len(instance) > 0 THEN NatIP(instance[1]) ELSE None
       IN /\ ip_results' = Append(ip_results, answer.truth)
          /\ api' = Called("GetInstance", answer.response,
                           GetInstance(answer.response))
          /\ IF Len(nat_ip) > 0
               THEN /\ ip_found' = nat_ip[1]
                    /\ pc' = ret
                    /\ ret' = "done"
               ELSE UNCHANGED <<ip_found, pc, ret>>
  /\ UNCHANGED <<entry, prefix, num_workers, i, frame, ip_name, exc,
                 cluster_info, instance_infos, instances, uuid_count,
                 gce_instances, gce_disks, warm_results>>
  /\ UNCHANGED <<ctor_vars, teardown_vars>>

\* Faulty variant: the exhausted loop returns None in place of raising.
WaitForExternalIp_TimeOutReturnsNone ==
  /\ pc = "WaitForExternalIp"
  /\ attempt >= INSTANCE_IP_ADDRESS_MAX_CHECK_TIMES
  /\ ip_found' = "None"
  /\ pc' = ret
  /\ ret' = "done"
  /\ UNCHANGED <<entry, prefix, num_workers, i, attempt, frame, ip_name, exc,
                 cluster_info, instance_infos, instances, uuid_count,
                 gce_instances, gce_disks, log, ip_results, warm_results>>
  /\ UNCHANGED <<ctor_vars, teardown_vars, api>>

\* Lines 282-283: the loop is exhausted.
WaitForExternalIp_TimeOut ==
  /\ pc = "WaitForExternalIp"
  /\ attempt >= INSTANCE_IP_ADDRESS_MAX_CHECK_TIMES
  /\ Raise(<<"External IP address time out for ">> \o ip_name)
  /\ UNCHANGED <<entry, ret, prefix, num_workers, i, attempt, frame, ip_name,
                 ip_found, cluster_info, instance_infos, instances,
                 uuid_count, gce_instances, gce_disks, log, ip_results,
                 warm_results>>
  /\ UNCHANGED <<ctor_vars, teardown_vars, api>>

(***************************************************************************)
(* _WaitForInstances                                                       *)
(***************************************************************************)
\* Line 287.
WaitForInstances_Master ==
  /\ pc = "WaitForInstances"
  /\ Call_WaitForExternalIp(master_name, "SetMasterIpAddress")
  /\ UNCHANGED <<entry, prefix, num_workers, i, frame, ip_found, exc,
                 cluster_info, instance_infos, instances, uuid_count,
                 gce_instances, gce_disks, log, warm_results>>
  /\ UNCHANGED <<ctor_vars, teardown_vars, api>>

\* Line 288.
WaitForInstances_SetMasterIp ==
  /\ pc = "SetMasterIpAddress"
  /\ IF cluster_info.master = 0
       THEN /\ exc' = <<"AttributeError">>
            /\ pc' = "raised"
            /\ UNCHANGED <<instance_infos, log>>
       ELSE /\ instance_infos' =
                 SetMasterIpAddress(cluster_info, instance_infos, ip_found)
            /\ log' = Logged(log, Event("external_ip.put", master_name))
            /\ pc' = "WaitForWorkers"
            /\ UNCHANGED exc
  /\ i' = 0
  /\ UNCHANGED <<entry, ret, prefix, num_workers, attempt, frame, ip_name,
                 ip_found, cluster_info, instances, uuid_count, gce_instances,
                 gce_disks, ip_results, warm_results>>
  /\ UNCHANGED <<ctor_vars, teardown_vars, api>>

\* Lines 289-291 and 296: the next worker, or on to the warm-up loop.
WaitForInstances_Workers ==
  /\ pc = "WaitForWorkers"
  /\ IF i < num_workers
       THEN /\ Call_WaitForExternalIp(WorkerName(i), "PutWorkerIp")
            /\ i' = i + 1
            /\ UNCHANGED warm_results
       ELSE /\ pc' = "WarmUp"
            /\ attempt' = 0
            /\ warm_results' = <<>>
            /\ UNCHANGED <<i, ip_name, ip_results, ret>>
  /\ UNCHANGED <<entry, prefix, num_workers, frame, ip_found, exc,
                 cluster_info, instance_infos, instances, uuid_count,
                 gce_instances, gce_disks, log>>
  /\ UNCHANGED <<ctor_vars, teardown_vars, api>>

\* Faulty variant: the address is set on the entity read and the entity is not put.
WaitForInstances_WorkerIpNotPut ==
  /\ pc = "PutWorkerIp"
  /\ LET key == GetByName(instance_infos, ip_name)
     IN IF key = 0
          THEN /\ exc' = <<"AttributeError">>
               /\ pc' = "raised"
          ELSE /\ pc' = "WaitForWorkers"
               /\ UNCHANGED exc
  /\ UNCHANGED <<entry, ret, prefix, num_workers, i, attempt, frame, ip_name,
                 ip_found, cluster_info, instance_infos, instances,
                 uuid_count, gce_instances, gce_disks, log, ip_results,
                 warm_results>>
  /\ UNCHANGED <<ctor_vars, teardown_vars, api>>

\* Lines 292-294: the worker's InstanceInfo gets the address and is put.
WaitForInstances_PutWorkerIp ==
  /\ pc = "PutWorkerIp"
  /\ LET key == GetByName(instance_infos, ip_name)
     IN IF key = 0
          THEN /\ exc' = <<"AttributeError">>
               /\ pc' = "raised"
               /\ UNCHANGED <<instance_infos, log>>
          ELSE /\ instance_infos' = PutExternalIp(instance_infos, key, ip_found)
               /\ log' = Logged(log, Event("external_ip.put", ip_name))
               /\ pc' = "WaitForWorkers"
               /\ UNCHANGED exc
  /\ UNCHANGED <<entry, ret, prefix, num_workers, i, attempt, frame, ip_name,
                 ip_found, cluster_info, instances, uuid_count, gce_instances,
                 gce_disks, ip_results, warm_results>>
  /\ UNCHANGED <<ctor_vars, teardown_vars, api>>

(***************************************************************************)
(* The warm-up loop of _WaitForInstances, with _RunCommandAtRemote.        *)
(***************************************************************************)
\* The literal the loop looks for, as its characters.
SuccessToken == <<"s", "u", "c", "c", "e", "s", "s">>

\* Contents of the sentinel file that hold the token, and that do not.
BodiesWithToken ==
  { SuccessToken,
    SuccessToken \o <<" ">>,
    <<"u", "n">> \o SuccessToken \o <<"f", "u", "l">> }
BodiesWithoutToken ==
  { <<>>,
    <<"f", "a", "i", "l", "e", "d">>,
    <<"s", "u", "c", "c", "e", "s">>,
    <<"S", "U", "C", "C", "E", "S", "S">>,
    <<"s", "u", "c", "c", "e", "s", " ", "s">> }

\* content.find(sub): the lowest index (from 0) where sub starts, -1 if none
Find(content, sub) ==
  LET starts == {k \in 0..(Len(content) - Len(sub)) :
                   SubSeq(content, k + 1, k + Len(sub)) = sub}
  IN IF starts = {} THEN -1
     ELSE CHOOSE k \in starts : \A j \in starts : k <= j

\* What urlfetch.fetch can answer: DownloadError, or a response with a status
\* code and a content; token tells whether the content holds the token.
FetchAnswers ==
  {[kind |-> "DownloadError", status_code |-> 0, content |-> <<>>,
    token |-> FALSE]}
  \cup {[kind |-> "response", status_code |-> c, content |-> b,
         token |-> TRUE] : c \in StatusCodes, b \in BodiesWithToken}
  \cup {[kind |-> "response", status_code |-> c, content |-> b,
         token |-> FALSE] : c \in StatusCodes, b \in BodiesWithoutToken}

\* urllib.urlencode quotes each value: a space becomes '+', a '/' becomes
\* '%2F', and letters, digits, '_', '.' and '-' stay as they are.
QuotePlus(value) ==
  [k \in 1..Len(value) |->
     IF value[k] = " " THEN "+"
     ELSE IF value[k] = DONE_FILE THEN "%2Fvar%2Flog%2FSTARTUP_SCRIPT_DONE"
     ELSE value[k]]

\* _BuildRpcUrl(rpckey, command) and _HttpRequest(host, path): the request
RpcRequest(host, rpckey, command) ==
  <<"http://", host, "/call?command=", QuotePlus(command), "&key=",
    QuotePlus(rpckey)>>

\* Faulty variant: DownloadError is not caught.
WarmUp_PollSurfacesDownloadError ==
  /\ pc = "WarmUp"
  /\ attempt < MASTER_WARM_UP_MAX_CHECK_TIMES
  /\ attempt' = attempt + 1
  /\ LET key == GetByName(instance_infos, master_name)
     IN IF key = 0
          THEN /\ exc' = <<"AttributeError">>
               /\ pc' = "raised"
               /\ UNCHANGED <<log, warm_results>>
          ELSE /\ log' = Logged(log,
                    Event("HttpRequest",
                          RpcRequest(instance_infos[key].external_ip,
                                     instance_infos[key].rpckey,
                                     <<"cat", " ", DONE_FILE>>)))
               /\ \E response \in FetchAnswers :
                    /\ warm_results' = Append(warm_results,
                          [kind |-> response.kind,
                           status_code |-> response.status_code,
                           token |-> response.token])
                    /\ IF response.kind = "DownloadError"
                         THEN /\ exc' = <<"DownloadError">>
                              /\ pc' = "raised"
                         ELSE IF response.status_code = 200
                                THEN IF Find(response.content, SuccessToken)
                                          /= -1
                                       THEN /\ pc' = "done"
                                            /\ UNCHANGED exc
                                       ELSE Raise(
                                         <<"Hadoop master failed to start">>)
                                ELSE UNCHANGED <<pc, exc>>
  /\ UNCHANGED <<entry, ret, prefix, num_workers, i, frame, ip_name, ip_found,
                 cluster_info, instance_infos, instances, uuid_count,
                 gce_instances, gce_disks, ip_results>>
  /\ UNCHANGED <<ctor_vars, teardown_vars, api>>

\* Faulty variant: a 200 response without the token sleeps and retries.
WarmUp_PollRetriesWithoutToken ==
  /\ pc = "WarmUp"
  /\ attempt < MASTER_WARM_UP_MAX_CHECK_TIMES
  /\ attempt' = attempt + 1
  /\ LET key == GetByName(instance_infos, master_name)
     IN IF key = 0
          THEN /\ exc' = <<"AttributeError">>
               /\ pc' = "raised"
               /\ UNCHANGED <<log, warm_results>>
          ELSE /\ log' = Logged(log,
                    Event("HttpRequest",
                          RpcRequest(instance_infos[key].external_ip,
                                     instance_infos[key].rpckey,
                                     <<"cat", " ", DONE_FILE>>)))
               /\ \E response \in FetchAnswers :
                    /\ warm_results' = Append(warm_results,
                          [kind |-> response.kind,
                           status_code |-> response.status_code,
                           token |-> response.token])
                    /\ IF /\ response.kind = "response"
                          /\ response.status_code = 200
                          /\ Find(response.content, SuccessToken) /= -1
                         THEN /\ pc' = "done"
                              /\ UNCHANGED exc
                         ELSE UNCHANGED <<pc, exc>>
  /\ UNCHANGED <<entry, ret, prefix, num_workers, i, frame, ip_name, ip_found,
                 cluster_info, instance_infos, instances, uuid_count,
                 gce_instances, gce_disks, ip_results>>
  /\ UNCHANGED <<ctor_vars, teardown_vars, api>>

\* Lines 296-310: one iteration: the command is sent to the master; a 200
\* response ends the loop, anything else sleeps.
WarmUp_Poll ==
  /\ pc = "WarmUp"
  /\ attempt < MASTER_WARM_UP_MAX_CHECK_TIMES
  /\ attempt' = attempt + 1
  /\ LET key == GetByName(instance_infos, master_name)
     IN IF key = 0
          THEN /\ exc' = <<"AttributeError">>
               /\ pc' = "raised"
               /\ UNCHANGED <<log, warm_results>>
          ELSE /\ log' = Logged(log,
                    Event("HttpRequest",
                          RpcRequest(instance_infos[key].external_ip,
                                     instance_infos[key].rpckey,
                                     <<"cat", " ", DONE_FILE>>)))
               /\ \E response \in FetchAnswers :
                    /\ warm_results' = Append(warm_results,
                          [kind |-> response.kind,
                           status_code |-> response.status_code,
                           token |-> response.token])
                    /\ IF /\ response.kind = "response"
                          /\ response.status_code = 200
                         THEN IF Find(response.content, SuccessToken) /= -1
                                THEN /\ pc' = "done"
                                     /\ UNCHANGED exc
                                ELSE Raise(<<"Hadoop master failed to start">>)
                         ELSE UNCHANGED <<pc, exc>>
  /\ UNCHANGED <<entry, ret, prefix, num_workers, i, frame, ip_name, ip_found,
                 cluster_info, instance_infos, instances, uuid_count,
                 gce_instances, gce_disks, ip_results>>
  /\ UNCHANGED <<ctor_vars, teardown_vars, api>>

\* Line 312: the loop is exhausted.
WarmUp_TimeOut ==
  /\ pc = "WarmUp"
  /\ attempt >= MASTER_WARM_UP_MAX_CHECK_TIMES
  /\ Raise(<<"Hadoop master set up timed out">>)
  /\ UNCHANGED <<entry, ret, prefix, num_workers, i, attempt, frame, ip_name,
                 ip_found, cluster_info, instance_infos, instances,
                 uuid_count, gce_instances, gce_disks, log, ip_results,
                 warm_results>>
  /\ UNCHANGED <<ctor_vars, teardown_vars, api>>

(***************************************************************************)
(* TeardownCluster                                                         *)
(***************************************************************************)
\* The calls TeardownCluster has made: how many ListInstances (counted up to
\* MaxCounted), whether any DeleteInstance, GetInstance and time.sleep, what
\* the first listing returned, and the latest call.
NoCalls == [ListInstances |-> 0, DeleteInstance |-> FALSE,
            GetInstance |-> FALSE, sleep |-> FALSE,
            first_listing |-> None, last |-> None]

Counted(n) == IF n < MaxCounted THEN n + 1 ELSE MaxCounted

\* Lines 348-349: the filter 'name eq "%s|%s"' % (master_name,
\* worker_name_pattern).
TeardownFilter == [exact |-> master_name, pattern |-> worker_name_pattern]

\* What the provider answers to a get of name.
ProviderGet(name) ==
  IF \E k \in 1..Len(gce_instances) : gce_instances[k].name = name
  THEN HttpOk([name |-> name])
  ELSE HttpError(404)

\* Faulty variant: the status is set on the object and not put.
Teardown_SetStatusNotPut ==
  /\ pc = "TeardownCluster"
  /\ IF cluster_info.stored
       THEN /\ pc' = "ListInstances"
            /\ exc' = exc
       ELSE /\ exc' = <<"AttributeError">>
            /\ pc' = "raised"
  /\ UNCHANGED <<entry, ret, prefix, num_workers, i, attempt, frame, ip_name,
                 ip_found, cluster_info, instance_infos, instances,
                 uuid_count, gce_instances, gce_disks, log, ip_results,
                 warm_results>>
  /\ UNCHANGED <<ctor_vars, teardown_vars, api>>

\* Line 345.  The method fails on an orchestrator that has no ClusterInfo.
Teardown_SetStatus ==
  /\ pc = "TeardownCluster"
  /\ IF cluster_info.stored
       THEN /\ cluster_info' =
                 SetStatus(cluster_info, <<ClusterStatus.TEARING_DOWN>>)
            /\ pc' = "ListInstances"
            /\ exc' = exc
       ELSE /\ exc' = <<"AttributeError">>
            /\ pc' = "raised"
            /\ cluster_info' = cluster_info
  /\ UNCHANGED <<entry, ret, prefix, num_workers, i, attempt, frame, ip_name,
                 ip_found, instance_infos, instances, uuid_count,
                 gce_instances, gce_disks, log, ip_results, warm_results>>
  /\ UNCHANGED <<ctor_vars, teardown_vars, api>>

\* Faulty variant: an empty listing does not leave the loop.
Teardown_ListWithoutBreak ==
  /\ pc = "ListInstances"
  /\ LET listed == ListInstances(gce_instances, TeardownFilter)
         names == [k \in 1..Len(listed) |-> listed[k].name]
     IN /\ instance_names' = names
        /\ teardown_calls' =
             [teardown_calls EXCEPT
                !.ListInstances = Counted(@),
                !.first_listing = IF @ = None THEN <<names>> ELSE @,
                !.last = Event("ListInstances", names)]
        /\ pc' = IF names = <<>> /\ teardown_calls.ListInstances > 0
                 THEN "DeleteClusterInfo" ELSE "DeleteInstances"
  /\ UNCHANGED <<entry, ret, prefix, num_workers, i, attempt, frame, ip_name,
                 ip_found, exc, cluster_info, instance_infos, instances,
                 uuid_count, gce_instances, gce_disks, log, ip_results,
                 warm_results, gce_deleting>>
  /\ UNCHANGED <<ctor_vars, api>>

\* Lines 347-352: the instances are listed; the loop is left when there is
\* none.
Teardown_List ==
  /\ pc = "ListInstances"
  /\ LET listed == ListInstances(gce_instances, TeardownFilter)
         names == [k \in 1..Len(listed) |-> listed[k].name]
     IN /\ instance_names' = names
        /\ teardown_calls' =
             [teardown_calls EXCEPT
                !.ListInstances = Counted(@),
                !.first_listing = IF @ = None THEN <<names>> ELSE @,
                !.last = Event("ListInstances", names)]
        /\ pc' = IF names = <<>> THEN "DeleteClusterInfo" ELSE "DeleteInstances"
  /\ UNCHANGED <<entry, ret, prefix, num_workers, i, attempt, frame, ip_name,
                 ip_found, exc, cluster_info, instance_infos, instances,
                 uuid_count, gce_instances, gce_disks, log, ip_results,
                 warm_results, gce_deleting>>
  /\ UNCHANGED <<ctor_vars, api>>

\* Lines 353-355: DeleteInstance is called for every listed name; what it
\* returns is not read.  The provider takes the requests and removes each
\* instance at a time of its own (Provider_Removes), or never.
Teardown_Delete ==
  /\ pc = "DeleteInstances"
  /\ gce_deleting' = gce_deleting \cup Range(instance_names)
  /\ teardown_calls' =
       [teardown_calls EXCEPT
          !.DeleteInstance = TRUE,
          !.last = Event("DeleteInstance", instance_names)]
  /\ attempt' = 0
  /\ pc' = "Confirm"
  /\ UNCHANGED <<entry, ret, prefix, num_workers, i, frame, ip_name,
                 ip_found, exc, cluster_info, instance_infos, instances,
                 uuid_count, gce_instances, gce_disks, log, ip_results,
                 warm_results, instance_names>>
  /\ UNCHANGED <<ctor_vars, api>>

\* Faulty variant: the names still alive are not kept; every poll asks for
\* all the names that were listed.
Teardown_ConfirmPollsAllNames ==
  /\ pc = "Confirm"
  /\ attempt < CLUSTER_SHUTDOWN_MAX_CHECK_TIMES
  /\ LET answers == [k \in 1..Len(instance_names) |->
                      ProviderGet(instance_names[k])]
         polled == [k \in 1..Len(instance_names) |->
                      [name |-> instance_names[k],
                       status |-> answers[k].status]]
         still_alive ==
           SelectSeq(instance_names,
                     LAMBDA name : GetInstance(ProviderGet(name)).value /= None)
     IN /\ api' = Called("GetInstance", answers[Len(answers)],
                         GetInstance(answers[Len(answers)]))
        /\ IF still_alive = <<>>
             THEN /\ pc' = "ListInstances"
                  /\ teardown_calls' =
                       [teardown_calls EXCEPT
                          !.GetInstance = TRUE,
                          !.last = Event("GetInstance", polled)]
                  /\ UNCHANGED <<instance_names, attempt>>
             ELSE /\ pc' = pc
                  /\ instance_names' = instance_names
                  /\ attempt' = attempt + 1
                  /\ teardown_calls' =
                       [teardown_calls EXCEPT
                          !.GetInstance = TRUE,
                          !.sleep = TRUE,
                          !.last = Event("GetInstance", polled)]
  /\ UNCHANGED <<entry, ret, prefix, num_workers, i, frame, ip_name,
                 ip_found, exc, cluster_info, instance_infos, instances,
                 uuid_count, gce_instances, gce_disks, log, ip_results,
                 warm_results, gce_deleting>>
  /\ UNCHANGED ctor_vars

\* Lines 356-366: one iteration of the confirmation loop: GetInstance for
\* every name; the loop is left when none is alive, otherwise the names
\* still alive are kept and the loop sleeps.
Teardown_Confirm ==
  /\ pc = "Confirm"
  /\ attempt < CLUSTER_SHUTDOWN_MAX_CHECK_TIMES
  /\ LET answers == [k \in 1..Len(instance_names) |->
                      ProviderGet(instance_names[k])]
         polled == [k \in 1..Len(instance_names) |->
                      [name |-> instance_names[k],
                       status |-> answers[k].status]]
         still_alive ==
           SelectSeq(instance_names,
                     LAMBDA name : GetInstance(ProviderGet(name)).value /= None)
     IN /\ api' = Called("GetInstance", answers[Len(answers)],
                         GetInstance(answers[Len(answers)]))
        /\ IF still_alive = <<>>
             THEN /\ pc' = "ListInstances"
                  /\ teardown_calls' =
                       [teardown_calls EXCEPT
                          !.GetInstance = TRUE,
                          !.last = Event("GetInstance", polled)]
                  /\ UNCHANGED <<instance_names, attempt>>
             ELSE /\ pc' = pc
                  /\ instance_names' = still_alive
                  /\ attempt' = attempt + 1
                  /\ teardown_calls' =
                       [teardown_calls EXCEPT
                          !.GetInstance = TRUE,
                          !.sleep = TRUE,
                          !.last = Event("GetInstance", polled)]
  /\ UNCHANGED <<entry, ret, prefix, num_workers, i, frame, ip_name,
                 ip_found, exc, cluster_info, instance_infos, instances,
                 uuid_count, gce_instances, gce_disks, log, ip_results,
                 warm_results, gce_deleting>>
  /\ UNCHANGED ctor_vars

\* Faulty variant: when the budget is used the method goes on to delete the
\* ClusterInfo, without listing again.
Teardown_ConfirmExhaustedGivesUp ==
  /\ pc = "Confirm"
  /\ attempt >= CLUSTER_SHUTDOWN_MAX_CHECK_TIMES
  /\ pc' = "DeleteClusterInfo"
  /\ UNCHANGED <<entry, ret, prefix, num_workers, i, attempt, frame, ip_name,
                 ip_found, exc, cluster_info, instance_infos, instances,
                 uuid_count, gce_instances, gce_disks, log, ip_results,
                 warm_results>>
  /\ UNCHANGED <<ctor_vars, teardown_vars, api>>

\* Line 356: the confirmation loop has used its budget; the outer loop
\* lists again.
Teardown_ConfirmExhausted ==
  /\ pc = "Confirm"
  /\ attempt >= CLUSTER_SHUTDOWN_MAX_CHECK_TIMES
  /\ pc' = "ListInstances"
  /\ UNCHANGED <<entry, ret, prefix, num_workers, i, attempt, frame, ip_name,
                 ip_found, exc, cluster_info, instance_infos, instances,
                 uuid_count, gce_instances, gce_disks, log, ip_results,
                 warm_results>>
  /\ UNCHANGED <<ctor_vars, teardown_vars, api>>

\* Line 368: self.cluster_info.key.delete()
Teardown_DeleteClusterInfo ==
  /\ pc = "DeleteClusterInfo"
  /\ cluster_info' = [cluster_info EXCEPT !.stored = FALSE]
  /\ pc' = "done"
  /\ UNCHANGED <<entry, ret, prefix, num_workers, i, attempt, frame, ip_name,
                 ip_found, exc, instance_infos, instances, uuid_count,
                 gce_instances, gce_disks, log, ip_results, warm_results>>
  /\ UNCHANGED <<ctor_vars, teardown_vars, api>>

\* The provider: an instance whose deletion it accepted disappears.
Provider_Removes ==
  /\ \E name \in gce_deleting :
       /\ gce_instances' =
            SelectSeq(gce_instances, LAMBDA instance : instance.name /= name)
       /\ gce_deleting' = gce_deleting \ {name}
  /\ UNCHANGED <<entry, pc, ret, prefix, num_workers, i, attempt, frame,
                 ip_name, ip_found, exc, cluster_info, instance_infos,
                 instances, uuid_count, gce_disks, log, ip_results,
                 warm_results, instance_names, teardown_calls>>
  /\ UNCHANGED <<ctor_vars, api>>

(***************************************************************************)
(* Specifications.                                                         *)
(***************************************************************************)
\* State of a constructed orchestrator nothing was called on yet.
Constructed ==
  /\ prefix \in Prefixes
  /\ num_workers \in 0..MaxWorkers
  /\ i = 0
  /\ attempt = 0
  /\ ip_name = None
  /\ ip_found = "None"
  /\ exc = None
  /\ instance_infos = <<>>
  /\ instances = {}
  /\ uuid_count = 0
  /\ gce_instances = <<>>
  /\ log = <<>>
  /\ ip_results = <<>>
  /\ warm_results = <<>>
  /\ ret = "done"
  /\ ctor = ConstructorCall(None, CallerArgs(prefix, num_workers), NoEntity)
  /\ self_fields = SelfFields(ctor)
  /\ instance_names = <<>>
  /\ gce_deleting = {}
  /\ teardown_calls = NoCalls

\* StartHadoopCluster() is called on an orchestrator constructed without a
\* cluster id.
Init ==
  /\ Constructed
  /\ entry = "StartHadoopCluster"
  /\ pc = "StartHadoopCluster"
  /\ frame = NoFrame
  /\ cluster_info = NoClusterInfo
  /\ gce_disks = {}
  /\ api = NoApiCall

Next ==
  \/ StartHadoopCluster_Put
  \/ StartMaster
  \/ StartWorkers
  \/ StartInstance_Disk
  \/ StartInstance_Metadata
  \/ StartInstance_Create
  \/ StartInstance_Put
  \/ WaitForInstances_Master
  \/ WaitForExternalIp_Poll
  \/ WaitForExternalIp_TimeOut
  \/ WaitForInstances_SetMasterIp
  \/ WaitForInstances_Workers
  \/ WaitForInstances_PutWorkerIp
  \/ WarmUp_Poll
  \/ WarmUp_TimeOut
  \/ Except_ClusterSetUpError

Spec == Init /\ [][Next]_vars

\* _StartInstance(instance_name, role, persistent_disk) is called on its own,
\* on an orchestrator whose ClusterInfo exists, with any role and either
\* value of persistent_disk; the disk of the instance exists or not.
InitStartInstance ==
  /\ Constructed
  /\ entry = "_StartInstance"
  /\ pc = "StartInstance"
  /\ cluster_info = NewClusterInfo
  /\ api = NoApiCall
  /\ \E name \in {master_name} \cup {WorkerName(k) : k \in 0..MaxWorkers},
        role \in RoleInputs, pd \in BOOLEAN :
       /\ frame = [NoFrame EXCEPT !.instance_name = name, !.role = role,
                                  !.persistent_disk = pd]
       /\ gce_disks \in SUBSET {name \o <<PERSISTENT_DISK_SUFFIX>>}

NextStartInstance ==
  \/ StartInstance_Disk
  \/ MaybeCreatePersistentDisk
  \/ StartInstance_Metadata
  \/ StartInstance_Create
  \/ StartInstance_Put

SpecStartInstance == InitStartInstance /\ [][NextStartInstance]_vars

\* The entity the registry holds for a cluster of prefix p and n workers.
StoredEntity(p, n, status) ==
  [exists |-> TRUE,
   items |-> [prefix |-> p, project |-> "project-r", name |-> "cluster-r",
              zone |-> "zone-r", machinetype |-> "n1-highmem-2",
              image |-> "image-r", network |-> "network-r",
              num_workers |-> n, custom_command |-> "custom"],
   info |-> [stored |-> TRUE, status |-> status, master |-> 1]]

\* The InstanceInfo entities StartHadoopCluster leaves for such a cluster.
StoredInstanceInfos(p, n) ==
  [k \in 1..(n + 1) |->
     IF k = 1
     THEN [InstanceInfo(MasterName(p), "master", Uuid4(1))
             EXCEPT !.external_ip = "10.0.0.1"]
     ELSE [InstanceInfo(FormatTemplate(WorkerNameTemplate(p), k - 2),
                        "worker", Uuid4(k))
             EXCEPT !.external_ip = "10.0.0.2"]]

\* Instances the provider can hold when a cluster of prefix p and n workers
\* is torn down: the nodes of the cluster, a worker of a higher index left
\* from an earlier start, and the master of another cluster.
HeldCandidates(p, n) ==
  <<[name |-> MasterName(p)]>>
  \o [k \in 1..(n + 1) |->
        [name |-> FormatTemplate(WorkerNameTemplate(p), k - 1)]]
  \o <<[name |-> MasterName("other")]>>

\* The elements of seq whose positions are in kept, in the order of seq.
RECURSIVE SubSequence(_, _)
SubSequence(seq, kept) ==
  IF seq = <<>> THEN <<>>
  ELSE LET front == SubSequence(SubSeq(seq, 1, Len(seq) - 1), kept)
       IN IF Len(seq) \in kept THEN Append(front, seq[Len(seq)]) ELSE front

\* What nothing was called on yet has, whatever the constructor resolved.
Idle ==
  /\ i = 0
  /\ attempt = 0
  /\ ret = "done"
  /\ frame = NoFrame
  /\ ip_name = None
  /\ ip_found = "None"
  /\ exc = None
  /\ instances = {}
  /\ uuid_count = 0
  /\ gce_disks = {}
  /\ log = <<>>
  /\ ip_results = <<>>
  /\ warm_results = <<>>
  /\ instance_names = <<>>
  /\ gce_deleting = {}
  /\ teardown_calls = NoCalls
  /\ api = NoApiCall

\* TeardownCluster() is called on an orchestrator constructed with the id of
\* a cluster, whose ClusterInfo the registry holds or not; the provider
\* holds any of the candidate instances.
InitTeardown ==
  /\ Idle
  /\ entry = "TeardownCluster"
  /\ pc = "TeardownCluster"
  /\ \E p \in Prefixes, n \in 0..MaxWorkers, exists \in BOOLEAN,
        status \in {ClusterStatusDefault,
                    <<ClusterStatus.ERROR, ": ">> \o
                      <<"Hadoop master set up timed out">>} :
       /\ ctor = ConstructorCall(<<"cluster-1">>, CallerArgs(p, n),
                                 IF exists THEN StoredEntity(p, n, status)
                                 ELSE NoEntity)
       /\ instance_infos = IF exists THEN StoredInstanceInfos(p, n) ELSE <<>>
       /\ \E kept \in SUBSET (1..(n + 3)) :
            gce_instances = SubSequence(HeldCandidates(p, n), kept)
  /\ cluster_info = GetById(ctor)
  /\ prefix = ItemValue(ctor, "prefix")
  /\ num_workers = ItemValue(ctor, "num_workers")
  /\ self_fields = SelfFields(ctor)

\* The steps of TeardownCluster.
TeardownCluster ==
  \/ Teardown_SetStatus
  \/ Teardown_List
  \/ Teardown_Delete
  \/ Teardown_Confirm
  \/ Teardown_ConfirmExhausted
  \/ Teardown_DeleteClusterInfo

NextTeardown ==
  \/ TeardownCluster
  \/ Provider_Removes

SpecTeardown == InitTeardown /\ [][NextTeardown]_vars

\* TeardownCluster() is called on the orchestrator of a stored cluster of
\* prefix 'managed'; the provider holds any of the candidate instances.
InitTeardownStored ==
  /\ Idle
  /\ entry = "TeardownCluster"
  /\ pc = "TeardownCluster"
  /\ \E n \in 0..MaxWorkers :
       /\ ctor = ConstructorCall(
                   <<"cluster-1">>, CallerArgs("managed", n),
                   StoredEntity("managed", n, ClusterStatusDefault))
       /\ instance_infos = StoredInstanceInfos("managed", n)
       /\ \E kept \in SUBSET (1..(n + 3)) :
            gce_instances = SubSequence(HeldCandidates("managed", n), kept)
  /\ cluster_info = GetById(ctor)
  /\ prefix = ItemValue(ctor, "prefix")
  /\ num_workers = ItemValue(ctor, "num_workers")
  /\ self_fields = SelfFields(ctor)

\* The program takes its next step whenever it has one, and the provider
\* removes, sooner or later, every instance it was asked to delete; it
\* surfaces no new instance.
LiveSpecTeardown ==
  /\ InitTeardownStored
  /\ [][NextTeardown]_vars
  /\ WF_vars(TeardownCluster)
  /\ WF_vars(Provider_Removes)

\* HadoopCluster(http, cluster_id, ...) is constructed, with or without a
\* cluster id and with or without an entity in the registry; the caller
\* passes one cluster specification and the entity holds another, which
\* differs from it in every item.  The nodes of the stored cluster are at
\* the provider.  The caller then starts the cluster or tears it down.
InitConstruct ==
  /\ Idle
  /\ entry = "__init__"
  /\ pc = "__init__"
  /\ prefix = ""
  /\ num_workers = 0
  /\ self_fields = NoFields
  /\ cluster_info = NoClusterInfo
  /\ \E cluster_id \in {None, <<"cluster-1">>}, exists \in BOOLEAN :
       /\ ctor = ConstructorCall(
                   cluster_id, CallerArgs("managed", 1),
                   IF exists THEN StoredEntity("test", 2, ClusterStatusDefault)
                   ELSE NoEntity)
       /\ instance_infos = IF cluster_id /= None /\ exists
                             THEN StoredInstanceInfos("test", 2) ELSE <<>>
       /\ gce_instances = IF cluster_id /= None /\ exists
                            THEN SubSequence(HeldCandidates("test", 2), 1..3)
                            ELSE <<>>

NextConstruct ==
  \/ Construct
  \/ Call_StartHadoopCluster
  \/ Call_TeardownCluster
  \/ Next
  \/ NextTeardown

SpecConstruct == InitConstruct /\ [][NextConstruct]_vars

\* Operations the insert request can return for an instance: with or
\* without 'warnings', with or without 'error'.
Warnings ==
  {<<>>,
   <<[code |-> "some warning code", message |-> "some warning message"]>>,
   <<[code |-> "some warning code", message |-> "some warning message"],
     [code |-> "other warning code", message |-> "other warning message"]>>}

Errors ==
  {[errors |-> <<>>],
   [errors |-> <<[code |-> "some error code",
                  message |-> "some error message"]>>],
   [errors |-> <<[code |-> "some error code",
                  message |-> "some error message"],
                 [code |-> "other error code",
                  message |-> "other error message"]>>]}

InsertResponses(name) ==
  {[name |-> name]}
  \cup {[name |-> name, warnings |-> w] : w \in Warnings}
  \cup {[name |-> name, error |-> e] : e \in Errors}
  \cup {[name |-> name, warnings |-> w, error |-> e] :
          w \in Warnings, e \in Errors}

\* What the get request can do for an instance: raise not found, or return
\* a descriptor.
GetResponses(name) == {answer.response : answer \in GetInstanceAnswers(name)}

\* One method of GceApi is called on its own, as the tests of
\* gce_api_test.py do, with any answer of the provider.
InitGceApi ==
  /\ Constructed
  /\ entry = "GceApi"
  /\ pc = "GceApi"
  /\ frame = NoFrame
  /\ cluster_info = NoClusterInfo
  /\ gce_disks = {}
  /\ \E name \in {master_name, WorkerName(0)} :
       api \in {ApiCall("CreateInstance", r, None) : r \in InsertResponses(name)}
              \cup {ApiCall("GetInstance", r, None) : r \in GetResponses(name)}

Api_CreateInstance ==
  /\ pc = "GceApi"
  /\ api.op = "CreateInstance"
  /\ api' = [api EXCEPT !.result = <<CreateInstance(api.response)>>]
  /\ pc' = "done"
  /\ UNCHANGED <<entry, ret, prefix, num_workers, i, attempt, frame, ip_name,
                 ip_found, exc, cluster_info, instance_infos, instances,
                 uuid_count, gce_instances, gce_disks, log, ip_results,
                 warm_results>>
  /\ UNCHANGED <<ctor_vars, teardown_vars>>

Api_GetInstance ==
  /\ pc = "GceApi"
  /\ api.op = "GetInstance"
  /\ api' = [api EXCEPT !.result = <<GetInstance(api.response)>>]
  /\ pc' = "done"
  /\ UNCHANGED <<entry, ret, prefix, num_workers, i, attempt, frame, ip_name,
                 ip_found, exc, cluster_info, instance_infos, instances,
                 uuid_count, gce_instances, gce_disks, log, ip_results,
                 warm_results>>
  /\ UNCHANGED <<ctor_vars, teardown_vars>>

NextGceApi ==
  \/ Api_CreateInstance
  \/ Api_GetInstance

SpecGceApi == InitGceApi /\ [][NextGceApi]_vars

\* The program takes its next step whenever it has one; nothing is assumed
\* about the provider.
FairSpecTeardown == SpecTeardown /\ WF_vars(TeardownCluster)

(***************************************************************************)
(* What the properties read from a state.                                  *)
(***************************************************************************)
\* The arguments of the calls of op in the log, in order.
RECURSIVE ArgsOf(_, _)
ArgsOf(l, op) ==
  IF l = <<>> THEN <<>>
  ELSE IF Head(l).op = op THEN <<Head(l).arg>> \o ArgsOf(Tail(l), op)
       ELSE ArgsOf(Tail(l), op)

LogOps == {log[k].op : k \in 1..Len(log)}

\* The node at position n of the provisioning order, by the naming contract:
\* <prefix>-hadoop-master, then <prefix>-hadoop-worker-<index in 3 digits>.
NodeAt(n) ==
  IF n = 0 THEN <<prefix, "-", "hadoop-master">>
  ELSE <<prefix, "-", "hadoop-worker", "-",
         DigitChar((n - 1) \div 100), DigitChar(((n - 1) \div 10) % 10),
         DigitChar((n - 1) % 10)>>

\* Names CreateInstance was called for and the provider did not accept.
FailedCreates ==
  Range(ArgsOf(log, "CreateInstance"))
    \ {gce_instances[k].name : k \in 1..Len(gce_instances)}

ErrorStatus(message) == <<"ERROR", ": ">> \o message

\* Positions where StartHadoopCluster is past _StartMaster and _StartWorkers.
AfterProvisioning ==
  pc \in {"WaitForInstances", "WaitForExternalIp", "SetMasterIpAddress",
          "WaitForWorkers", "PutWorkerIp", "WarmUp", "done", "except"}

(***************************************************************************)
(* C1: in StartHadoopCluster the ClusterInfo is put in the registry before *)
(* the first call of any kind to the compute provider: every provider call *)
(* in the log has the put of the ClusterInfo before it, and the entity is  *)
(* stored whenever a provider call has been made.                          *)
(***************************************************************************)
C1_ClusterRecordBeforeProviderCall ==
  \A k \in 1..Len(log) :
    log[k].op \in ProviderOps =>
      /\ \E j \in 1..(k - 1) : log[j].op = "ClusterInfo.put"
      /\ cluster_info.stored

C1_Witness ==
  /\ Len(log) >= 2
  /\ log[1].op = "ClusterInfo.put"
  /\ log[2].op = "CreateInstance"

(***************************************************************************)
(* C2: for every role outside {master, worker} and both values of          *)
(* persistent_disk, _StartInstance fails with a ClusterSetUpError, has     *)
(* made no provider call (GetDisk, CreatePersistentDisk, CreateInstance)   *)
(* and has put no InstanceInfo.                                            *)
(***************************************************************************)
C2_InvalidRoleRejectedBeforeProviderCall ==
  frame.role \notin {"master", "worker"} =>
    /\ pc /= "done"
    /\ LogOps \cap ProviderOps = {}
    /\ instance_infos = <<>>
    /\ pc = "raised" => exc = <<"Invalid instance role name: ", frame.role>>

(***************************************************************************)
(* C3: when the provider refuses the CreateInstance of a node,             *)
(* StartHadoopCluster raises for that node, calls CreateInstance for no    *)
(* later node, starts neither address nor warm-up polling, deletes         *)
(* nothing (the instances accepted before and their InstanceInfo entities  *)
(* remain) and ends with the status 'ERROR: <message>'.                    *)
(***************************************************************************)
C3_CreateFailureIsFatal ==
  FailedCreates /= {} =>
    LET creates == ArgsOf(log, "CreateInstance")
        failed == creates[Len(creates)]
        before == SubSeq(creates, 1, Len(creates) - 1)
    IN /\ FailedCreates = {failed}
       /\ pc \in {"except", "done"}
       /\ exc = <<"Failed to start instance ">> \o failed
       /\ LogOps \cap {"GetInstance", "HttpRequest", "DeleteInstance"} = {}
       /\ ip_results = <<>> /\ warm_results = <<>>
       /\ [k \in 1..Len(gce_instances) |-> gce_instances[k].name] = before
       /\ [k \in 1..Len(instance_infos) |-> instance_infos[k].name] = before
       /\ pc = "done" => cluster_info.status = ErrorStatus(exc)

C3_Witness ==
  /\ pc = "done"
  /\ FailedCreates = {NodeAt(2)}
  /\ Len(instance_infos) = 2

(***************************************************************************)
(* C4: when the provider accepts every CreateInstance, once provisioning   *)
(* is over the registry holds exactly one InstanceInfo of role master and  *)
(* exactly num_workers of role worker, the workers named with the indices  *)
(* 0..num_workers-1, no two entities share a name, and the metadata of     *)
(* each instance carries, beside the ten common keys, exactly the daemon   *)
(* flags of its role, each set to 1.                                       *)
(***************************************************************************)
CommonMetadataKeys ==
  {"startup-script-url", "rpckey", "disk-id", "hostname-prefix",
   "num-workers", "hadoop-master", "hadoop-worker-template",
   "tmp-cloud-storage", "custom-command", "hadoop-patch"}

DaemonFlags(role) == IF role = "master" THEN {"NameNode", "JobTracker"}
                     ELSE {"DataNode", "TaskTracker"}

C4_OneMasterAndNWorkers ==
  (AfterProvisioning /\ FailedCreates = {}) =>
    LET infos == instance_infos
        keys == 1..Len(infos)
    IN /\ Cardinality({k \in keys : infos[k].role = "master"}) = 1
       /\ Cardinality({k \in keys : infos[k].role = "worker"}) = num_workers
       /\ Len(infos) = num_workers + 1
       /\ \A k \in keys :
            infos[k].name = NodeAt(k - 1)
              /\ infos[k].role = (IF k = 1 THEN "master" ELSE "worker")
       /\ \A k, j \in keys : k /= j => infos[k].name /= infos[j].name
       /\ Len(gce_instances) = num_workers + 1
       /\ \A k \in 1..Len(gce_instances) :
            LET metadata == gce_instances[k].metadata
                flags == DOMAIN metadata \ CommonMetadataKeys
            IN /\ gce_instances[k].name = infos[k].name
               /\ flags = DaemonFlags(infos[k].role)
               /\ \A f \in flags : metadata[f] = 1

C4_Witness ==
  /\ pc = "WaitForInstances"
  /\ FailedCreates = {}
  /\ num_workers = MaxWorkers
  /\ Len(instance_infos) = MaxWorkers + 1

(***************************************************************************)
(* C5: CreateInstance is called for the master first and then for the      *)
(* workers in increasing index order; the InstanceInfo of a node is put    *)
(* before CreateInstance is called for the next node; the master           *)
(* reference of the ClusterInfo is the master's InstanceInfo from the      *)
(* moment that entity is put, and never a worker's.                        *)
(***************************************************************************)
C5_OrderedCreateAndPersist ==
  /\ \A k \in 1..Len(log) :
       log[k].op = "CreateInstance" =>
         LET n == Len(ArgsOf(SubSeq(log, 1, k - 1), "CreateInstance"))
         IN /\ log[k].arg = NodeAt(n)
            /\ n > 0 =>
                 \E j \in 1..(k - 1) :
                   /\ log[j] = Event("InstanceInfo.put", NodeAt(n - 1))
                   /\ \A m \in 1..(j - 1) :
                        log[m] /= Event("CreateInstance", NodeAt(n))
  /\ ArgsOf(log, "InstanceInfo.put")
       = [k \in 1..Len(instance_infos) |-> instance_infos[k].name]
  /\ IF \E k \in 1..Len(instance_infos) : instance_infos[k].role = "master"
       THEN /\ cluster_info.master \in 1..Len(instance_infos)
            /\ instance_infos[cluster_info.master].role = "master"
            /\ instance_infos[cluster_info.master].name = NodeAt(0)
       ELSE cluster_info.master = 0

C5_Witness ==
  /\ Len(ArgsOf(log, "CreateInstance")) = 3
  /\ Len(instance_infos) = 3
  /\ cluster_info.master = 1

(***************************************************************************)
(* C6: the first warm-up request is sent only when the registry holds an   *)
(* external address for the master and for every worker, each the address  *)
(* that the discovery of that node returned; and the address of a node is  *)
(* written to the registry before the first GetInstance for the next node. *)
(***************************************************************************)
C6_AddressesBeforeWarmUp ==
  /\ ("HttpRequest" \in LogOps \/ warm_results /= <<>> \/ pc = "WarmUp") =>
       /\ Len(instance_infos) = num_workers + 1
       /\ \A k \in 1..Len(instance_infos) :
            instance_infos[k].external_ip \in Addresses
       /\ ArgsOf(log, "external_ip.put")
            = [k \in 1..(num_workers + 1) |-> NodeAt(k - 1)]
  /\ \A k \in 1..Len(log) :
       log[k].op = "GetInstance" =>
         \A j \in 1..(k - 1) :
           log[j].op = "GetInstance" =>
             \E m \in (j + 1)..(k - 1) :
               log[m] = Event("external_ip.put", log[j].arg)
  /\ pc = "WaitForWorkers" =>
       \E k \in 1..Len(instance_infos) :
         /\ instance_infos[k].name = ip_name
         /\ instance_infos[k].external_ip = ip_found
         /\ ip_found = ip_results[Len(ip_results)]

C6_Witness ==
  /\ "HttpRequest" \in LogOps
  /\ num_workers = MaxWorkers
  /\ \E k, j \in 1..Len(instance_infos) :
       instance_infos[k].external_ip /= instance_infos[j].external_ip

(***************************************************************************)
(* C7: when the provider's answers for a node are absent or lack an        *)
(* external address on the polls 1..N-1 and the answer of poll N carries a *)
(* well-formed address (N within the attempt budget), _WaitForExternalIp   *)
(* returns that address after exactly N GetInstance calls: an address in   *)
(* the answers is always the last answer, it is the value returned, N      *)
(* iterations were done, and the loop is not polling any more.             *)
(***************************************************************************)
IpReturnPoints == {"SetMasterIpAddress", "PutWorkerIp"}

C7_AddressReturnedOnFirstPollCarryingIt ==
  /\ \A k \in 1..Len(ip_results) :
       ip_results[k] \in Addresses =>
         /\ k = Len(ip_results)
         /\ k <= INSTANCE_IP_ADDRESS_MAX_CHECK_TIMES
         /\ ip_found = ip_results[k]
         /\ pc /= "WaitForExternalIp"
         /\ exc /= <<"External IP address time out for ">> \o ip_name
         /\ pc \in IpReturnPoints => attempt = k
  /\ pc \in IpReturnPoints =>
       /\ ip_results /= <<>>
       /\ ip_results[Len(ip_results)] \in Addresses

C7_Witness ==
  /\ pc = "PutWorkerIp"
  /\ Len(ip_results) = INSTANCE_IP_ADDRESS_MAX_CHECK_TIMES
  /\ ip_results[1] = "absent"
  /\ ip_results[2] = "noaddr"
  /\ ip_found = ip_results[Len(ip_results)]

(***************************************************************************)
(* C8: when no answer for a node carries an address within the attempt     *)
(* budget, _WaitForExternalIp makes exactly budget-many GetInstance calls  *)
(* for the node and raises the time-out; StartHadoopCluster then ends with *)
(* an ERROR status, polls no later node and sends no warm-up request.      *)
(***************************************************************************)
C8_AddressTimeOutIsFatal ==
  (/\ Len(ip_results) >= INSTANCE_IP_ADDRESS_MAX_CHECK_TIMES
   /\ \A k \in 1..INSTANCE_IP_ADDRESS_MAX_CHECK_TIMES :
        ip_results[k] \notin Addresses) =>
    LET polled == ArgsOf(log, "GetInstance")
    IN /\ Len(ip_results) = INSTANCE_IP_ADDRESS_MAX_CHECK_TIMES
       /\ pc \in {"WaitForExternalIp", "except", "done"}
       /\ pc = "WaitForExternalIp" =>
            attempt = INSTANCE_IP_ADDRESS_MAX_CHECK_TIMES
       /\ pc \in {"except", "done"} =>
            exc = <<"External IP address time out for ">> \o ip_name
       /\ pc = "done" => cluster_info.status = ErrorStatus(exc)
       /\ polled[Len(polled)] = ip_name
       /\ \A k \in 1..Len(polled) : polled[k] = NodeAt(k - 1)
       /\ "HttpRequest" \notin LogOps
       /\ warm_results = <<>>

C8_Witness ==
  /\ pc = "done"
  /\ Len(ip_results) = INSTANCE_IP_ADDRESS_MAX_CHECK_TIMES
  /\ \A k \in 1..Len(ip_results) : ip_results[k] \notin Addresses
  /\ ip_name = NodeAt(1)
  /\ num_workers = MaxWorkers
  /\ cluster_info.status = ErrorStatus(exc)

(***************************************************************************)
(* C9: when the content of the master's response first holds 'success' on  *)
(* attempt k (k within the budget), exactly k requests are sent and the    *)
(* status of the ClusterInfo is READY when StartHadoopCluster has          *)
(* finished.                                                               *)
(***************************************************************************)
\* Attempt k is the first whose response holds the token, and that response
\* has status code 200.
FirstToken(k) ==
  /\ k \in 1..Len(warm_results)
  /\ warm_results[k].token
  /\ warm_results[k].status_code = 200
  /\ \A j \in 1..(k - 1) : ~warm_results[j].token

C9_SuccessMakesClusterReady ==
  \A k \in 1..MASTER_WARM_UP_MAX_CHECK_TIMES :
    FirstToken(k) =>
      /\ Len(warm_results) = k
      /\ pc = "done"
      /\ cluster_info.status = <<ClusterStatus.READY>>

(***************************************************************************)
(* C10 as claimed: whenever the channel returns a response, of whatever    *)
(* status code, whose content lacks 'success', the cluster goes to ERROR   *)
(* on that attempt and no further warm-up request is sent.                 *)
(***************************************************************************)
WarmUpFailedAt(k) ==
  /\ Len(warm_results) = k
  /\ pc \in {"except", "done"}
  /\ exc = <<"Hadoop master failed to start">>
  /\ pc = "done" => cluster_info.status = ErrorStatus(exc)

C10_AnyResponseWithoutTokenIsFatal ==
  \A k \in 1..Len(warm_results) :
    (warm_results[k].kind = "response" /\ ~warm_results[k].token) =>
      WarmUpFailedAt(k)

(***************************************************************************)
(* C10 as amended: whenever the channel returns a response with status     *)
(* code 200 whose content lacks 'success', the cluster goes to ERROR on    *)
(* that attempt and no further warm-up request is sent.                    *)
(***************************************************************************)
C10_OkResponseWithoutTokenIsFatal ==
  \A k \in 1..Len(warm_results) :
    (/\ warm_results[k].kind = "response"
     /\ warm_results[k].status_code = 200
     /\ ~warm_results[k].token) =>
      WarmUpFailedAt(k)

C10_Witness ==
  /\ pc = "done"
  /\ Len(warm_results) = 2
  /\ warm_results[1].kind = "DownloadError"
  /\ warm_results[2] = [kind |-> "response", status_code |-> 200,
                        token |-> FALSE]
  /\ cluster_info.status = ErrorStatus(<<"Hadoop master failed to start">>)

(***************************************************************************)
(* C11: a DownloadError of a warm-up request is not surfaced, uses up      *)
(* exactly one attempt of the budget and is followed by a retry; when      *)
(* every attempt of the budget ends without a 200 response, exactly        *)
(* budget-many requests have been sent and the status becomes 'ERROR:      *)
(* Hadoop master set up timed out'; the loop never sends more requests     *)
(* than the budget, so it ends.                                            *)
(***************************************************************************)
Inconclusive(r) == r.kind = "DownloadError" \/ r.status_code /= 200

WarmUpTimedOut ==
  /\ pc \in {"except", "done"}
  /\ exc = <<"Hadoop master set up timed out">>
  /\ pc = "done" => cluster_info.status = ErrorStatus(exc)

C11_ConnectionFailureIsRetriedWithinBudget ==
  /\ Len(warm_results) <= MASTER_WARM_UP_MAX_CHECK_TIMES
  /\ pc = "WarmUp" => attempt = Len(warm_results)
  /\ exc /= <<"DownloadError">>
  /\ \A k \in 1..Len(warm_results) :
       warm_results[k].kind = "DownloadError" =>
         IF k < Len(warm_results) THEN TRUE
         ELSE IF k < MASTER_WARM_UP_MAX_CHECK_TIMES
                THEN pc = "WarmUp" /\ attempt = k /\ exc = None
                ELSE (pc = "WarmUp" /\ attempt = k) \/ WarmUpTimedOut
  /\ (/\ Len(warm_results) = MASTER_WARM_UP_MAX_CHECK_TIMES
      /\ \A k \in 1..Len(warm_results) : Inconclusive(warm_results[k])) =>
       (pc = "WarmUp" /\ attempt = MASTER_WARM_UP_MAX_CHECK_TIMES)
         \/ WarmUpTimedOut

C11_Witness ==
  /\ pc = "done"
  /\ Len(warm_results) = MASTER_WARM_UP_MAX_CHECK_TIMES
  /\ \A k \in 1..Len(warm_results) : warm_results[k].kind = "DownloadError"
  /\ cluster_info.status = ErrorStatus(<<"Hadoop master set up timed out">>)

(***************************************************************************)
(* Teardown.                                                               *)
(***************************************************************************)
TearingDown == <<ClusterStatus.TEARING_DOWN>>

\* Names among those the provider holds that the filter of teardown selects.
HeldSelected ==
  {name \in {gce_instances[k].name : k \in 1..Len(gce_instances)} :
     Selected(TeardownFilter, name)}

\* C12: in TeardownCluster the status TEARING_DOWN is persisted on the
\* ClusterInfo before the first ListInstances call and before the first
\* DeleteInstance call: at every position from which a provider call is
\* made, and in every state where one has been made, the entity holds
\* TEARING_DOWN (it is stored until the method deletes it at its end).
C12_TearingDownPersistedBeforeProviderCall ==
  /\ pc \in {"ListInstances", "DeleteInstances", "Confirm"} =>
       cluster_info.stored /\ cluster_info.status = TearingDown
  /\ (\/ teardown_calls.ListInstances > 0
      \/ teardown_calls.DeleteInstance
      \/ teardown_calls.GetInstance) =>
       /\ cluster_info.status = TearingDown
       /\ cluster_info.stored \/ pc = "done"

C12_Witness ==
  /\ entry = "TeardownCluster"
  /\ teardown_calls.ListInstances = 1
  /\ teardown_calls.DeleteInstance
  /\ cluster_info.stored
  /\ cluster_info.status = TearingDown

\* C13: when the first listing of TeardownCluster returns no instance (the
\* provider holds none the filter selects), the method makes exactly one
\* ListInstances call, no DeleteInstance call, no GetInstance call and no
\* sleep, and goes on to delete the ClusterInfo.
C13_NothingToTearDown ==
  /\ teardown_calls.first_listing /= None =>
       (teardown_calls.first_listing = <<<<>>>>) <=>
         (HeldSelected = {} /\ ~teardown_calls.DeleteInstance)
  /\ teardown_calls.first_listing = <<<<>>>> =>
       /\ teardown_calls.ListInstances = 1
       /\ ~teardown_calls.DeleteInstance
       /\ ~teardown_calls.GetInstance
       /\ ~teardown_calls.sleep
       /\ pc \in {"DeleteClusterInfo", "done"}
       /\ pc = "done" => ~cluster_info.stored

C13_Witness ==
  /\ teardown_calls.first_listing = <<<<>>>>
  /\ gce_instances /= <<>>
  /\ pc = "done"
  /\ ctor.entity.exists
  /\ ~cluster_info.stored

\* C14: TeardownCluster deletes the ClusterInfo only after a ListInstances
\* call returned no instance, and that listing is the last provider call
\* before the deletion: whenever the entity is about to be deleted or has
\* been deleted, the latest provider call is a listing that was empty.
C14_RecordDeletedOnlyAfterEmptyListing ==
  (\/ pc = "DeleteClusterInfo"
   \/ entry = "TeardownCluster" /\ ctor.entity.exists
        /\ ~cluster_info.stored) =>
    /\ teardown_calls.last = Event("ListInstances", <<>>)
    /\ instance_names = <<>>

C14_Witness ==
  /\ entry = "TeardownCluster"
  /\ ctor.entity.exists
  /\ ~cluster_info.stored
  /\ teardown_calls.GetInstance
  /\ teardown_calls.ListInstances = MaxCounted

\* C15: TeardownCluster always terminates: it either deletes the
\* ClusterInfo or stops with a TeardownIncomplete condition.
C15_TeardownTerminates ==
  <>(pc \in {"done", "raised", "TeardownIncomplete"})

\* C16: after TeardownCluster has completed the registry holds no
\* InstanceInfo of the cluster.
C16_InstanceRecordsDeleted ==
  (entry = "TeardownCluster" /\ pc = "done") => instance_infos = <<>>

(***************************************************************************)
(* GceApi.                                                                 *)
(***************************************************************************)
\* The CreateInstance call that has returned, if any.
CreateInstanceReturned ==
  pc = "done" /\ api.op = "CreateInstance" /\ api.result /= None

\* C17: CreateInstance classifies the response by its 'error' key alone:
\* with the key it returns False and raises nothing, with or without
\* 'warnings'; without the key it returns True, with or without 'warnings'.
C17_CreateInstanceClassifiesByErrorKey ==
  CreateInstanceReturned =>
    /\ api.result[1].raised = FALSE
    /\ api.result[1].requests = 1
    /\ "error" \in DOMAIN api.response => api.result[1].value = FALSE
    /\ "error" \notin DOMAIN api.response => api.result[1].value = TRUE

\* testCreateInstance_SuccessWithWarning and testCreateInstance_Error, and
\* an error that comes with warnings.
C17_Witness ==
  /\ CreateInstanceReturned
  /\ "warnings" \in DOMAIN api.response
  /\ Len(api.response.warnings) = 1
  /\ "error" \in DOMAIN api.response
  /\ api.result[1].value = FALSE

\* The names the last confirmation poll of teardown found alive, in order.
PolledAlive ==
  LET polled == SelectSeq(teardown_calls.last.arg,
                          LAMBDA answer : answer.status /= 404)
  IN [k \in 1..Len(polled) |-> polled[k].name]

\* C18: GetInstance answers not found (404) with None, after one request
\* and without raising.  The callers read None as follows: the confirmation
\* loop of TeardownCluster drops the name from the names still alive (and
\* leaves the loop when none is alive), and _WaitForExternalIp takes the
\* poll as one without an address: it polls again, or raises the time-out
\* when that poll was the last of the budget.
C18_NotFoundIsAbsent ==
  /\ (api.op = "GetInstance" /\ api.response.status = 404) =>
       api.result = <<[value |-> None, requests |-> 1, raised |-> FALSE]>>
  /\ (teardown_calls.last /= None /\ teardown_calls.last.op = "GetInstance") =>
       /\ pc \in {"Confirm", "ListInstances"}
       /\ pc = "Confirm" => instance_names = PolledAlive /\ PolledAlive /= <<>>
       /\ PolledAlive = <<>> => pc = "ListInstances"
  /\ (Len(ip_results) > 0 /\ ip_results[Len(ip_results)] = "absent") =>
       /\ pc \in {"WaitForExternalIp", "except", "done"}
       /\ pc = "WaitForExternalIp" =>
            attempt = Len(ip_results) /\ exc = None
       /\ pc /= "WaitForExternalIp" =>
            /\ Len(ip_results) = INSTANCE_IP_ADDRESS_MAX_CHECK_TIMES
            /\ exc = <<"External IP address time out for ">> \o ip_name

\* A confirmation poll that found the last name gone and another alive.
C18_Witness ==
  /\ pc = "Confirm"
  /\ teardown_calls.last.op = "GetInstance"
  /\ api.response.status = 404
  /\ api.result[1].value = None
  /\ Len(instance_names) < Len(teardown_calls.last.arg)

(***************************************************************************)
(* Construction.                                                           *)
(***************************************************************************)
\* Whether the constructor call names a cluster whose entity exists.
RecordExists == ctor.cluster_id /= None /\ ctor.entity.exists

\* C19: once constructed, every item (prefix, project, name, zone,
\* machinetype, image, network, num_workers, custom_command) has the value
\* of the entity when an entity exists for the cluster id given, and the
\* value of the caller's argument when no id is given or no entity exists;
\* master_name, worker_name_template and the filter of teardown are built
\* from that prefix; starting and tearing down leave all of them as they
\* are.
C19_SpecResolvedAtConstruction ==
  pc /= "__init__" =>
    LET chosen == IF RecordExists THEN ctor.entity.items ELSE ctor.args
    IN /\ cluster_info.stored => RecordExists \/ entry = "StartHadoopCluster"
       /\ prefix = chosen.prefix
       /\ num_workers = chosen.num_workers
       /\ \A item \in {"project", "name", "zone", "machinetype", "image",
                        "network", "custom_command"} :
            self_fields[item] = chosen[item]
       /\ master_name = <<chosen.prefix, "-", "hadoop-master">>
       /\ worker_name_template =
            <<chosen.prefix, "-", "hadoop-worker", "-", "%03d">>
       /\ TeardownFilter =
            [exact |-> <<chosen.prefix, "-", "hadoop-master">>,
             pattern |-> <<"^", chosen.prefix, "-", "hadoop-worker", "-",
                           "\\d+", "$">>]

\* A cluster constructed from its entity, against other arguments, and torn
\* down.
C19_Witness ==
  /\ entry = "TeardownCluster"
  /\ pc = "done"
  /\ RecordExists
  /\ \A item \in Range(SpecItems) : ctor.args[item] /= ctor.entity.items[item]
  /\ prefix = "test"
  /\ num_workers = 2

(***************************************************************************)
(* Persistent disk.                                                        *)
(***************************************************************************)
\* '<instance name>-pd' of the _StartInstance call.
DiskOfCall == frame.instance_name \o <<PERSISTENT_DISK_SUFFIX>>

DiskCreateFailed(disk) == <<"Failed to create persistent disk ">> \o disk

\* What holds in every state of a _StartInstance call with persistent_disk.
PersistentDiskOrder ==
  frame.persistent_disk =>
    /\ log /= <<>> => log[1] = Event("GetDisk", DiskOfCall)
    /\ Len(ArgsOf(log, "GetDisk")) <= 1
    /\ ArgsOf(log, "CreatePersistentDisk") \in {<<>>, <<DiskOfCall>>}
    /\ ArgsOf(log, "CreatePersistentDisk") /= <<>> =>
         log[2] = Event("CreatePersistentDisk", DiskOfCall)
    /\ ArgsOf(log, "CreateInstance") /= <<>> =>
         /\ DiskOfCall \in gce_disks
         /\ exc /= DiskCreateFailed(DiskOfCall)
    /\ exc = DiskCreateFailed(DiskOfCall) =>
         /\ pc = "raised"
         /\ log = <<Event("GetDisk", DiskOfCall),
                    Event("CreatePersistentDisk", DiskOfCall)>>
         /\ DiskOfCall \notin gce_disks
         /\ gce_instances = <<>>

\* What holds of every step that calls CreatePersistentDisk.
CreateDiskOnlyIfAbsent ==
  Len(ArgsOf(log', "CreatePersistentDisk")) >
    Len(ArgsOf(log, "CreatePersistentDisk")) =>
      /\ frame.persistent_disk
      /\ DiskOfCall \notin gce_disks

\* C20: with persistent_disk, _StartInstance calls GetDisk for
\* '<instance name>-pd' before any other provider call, calls
\* CreatePersistentDisk only when that disk does not exist, and calls
\* CreateInstance only when the disk exists; when CreatePersistentDisk fails
\* the call raises and CreateInstance is not called.
C20_DiskCheckedThenCreatedThenInstance ==
  []PersistentDiskOrder /\ [][CreateDiskOnlyIfAbsent]_vars

\* The disk was absent, was created, and the instance was created after it.
C20_Witness ==
  /\ entry = "_StartInstance"
  /\ pc = "done"
  /\ frame.persistent_disk
  /\ ArgsOf(log, "CreatePersistentDisk") = <<DiskOfCall>>
  /\ ArgsOf(log, "CreateInstance") = <<frame.instance_name>>
  /\ DiskOfCall \in gce_disks
  /\ gce_instances /= <<>>

(***************************************************************************)
(* The confirmation loop of teardown.                                      *)
(***************************************************************************)
\* The names a poll asked for.
PolledNames(polled) == [k \in 1..Len(polled) |-> polled[k].name]

\* What holds in every state of the loops of TeardownCluster: the
\* confirmation loop runs within its budget, on names that were alive at
\* its last poll, and the method has neither failed nor deleted the
\* ClusterInfo.
ConfirmationWithinBudget ==
  pc \in {"DeleteInstances", "Confirm"} =>
    /\ attempt <= CLUSTER_SHUTDOWN_MAX_CHECK_TIMES
    /\ instance_names /= <<>>
    /\ exc = None
    /\ cluster_info.stored
    /\ pc = "Confirm" =>
         /\ Range(instance_names) \subseteq gce_deleting \cup
               {name \in Range(instance_names) : ProviderGet(name).status = 404}
         /\ teardown_calls.last.op = "DeleteInstance" =>
              attempt = 0 /\ instance_names = teardown_calls.last.arg
         /\ teardown_calls.last.op = "GetInstance" =>
              attempt >= 1 /\ instance_names = PolledAlive

\* What holds of every step of the loops: DeleteInstance is called for
\* every name that was listed; a poll asks for the names of the previous
\* poll that were alive (for all deleted names when it is the first); the
\* confirmation loop is left to list again, whether its budget was used up
\* or no name was alive; and a listing that is not empty is followed by
\* DeleteInstance for every instance the provider holds that matches.
ConfirmationSteps ==
  /\ (pc = "DeleteInstances" /\ pc' /= pc) =>
       /\ pc' = "Confirm"
       /\ teardown_calls.last = Event("ListInstances", instance_names)
       /\ teardown_calls'.last = Event("DeleteInstance", instance_names)
       /\ Range(instance_names) \subseteq gce_deleting'
  /\ (pc = "Confirm" /\ (attempt' /= attempt \/ teardown_calls' /= teardown_calls)) =>
       /\ attempt < CLUSTER_SHUTDOWN_MAX_CHECK_TIMES
       /\ teardown_calls'.last.op = "GetInstance"
       /\ PolledNames(teardown_calls'.last.arg) = instance_names
       /\ teardown_calls.last.op = "GetInstance" =>
            PolledNames(teardown_calls'.last.arg) = PolledAlive
  /\ (pc = "Confirm" /\ pc' /= pc) =>
       /\ pc' = "ListInstances"
       /\ exc' = None
       /\ cluster_info'.stored
  /\ (pc = "ListInstances" /\ pc' = "DeleteInstances") =>
       /\ Range(instance_names') = HeldSelected
       /\ instance_names' /= <<>>

\* C21: after DeleteInstance for every listed name TeardownCluster polls
\* GetInstance at most CLUSTER_SHUTDOWN_MAX_CHECK_TIMES times, each poll for
\* the names the previous poll found alive; when a name is alive after the
\* last poll the method does not fail and does not finish: it lists again
\* and calls DeleteInstance for every instance still listed; and when the
\* provider removes every instance it was asked to delete and surfaces no
\* new one, the method eventually deletes the ClusterInfo.
C21_ConfirmThenRelistUntilGone ==
  /\ []ConfirmationWithinBudget
  /\ [][ConfirmationSteps]_vars
  /\ <>(pc = "done" /\ ~cluster_info.stored)

\* The budget of the confirmation loop was used up with a name alive, the
\* instances were listed again and DeleteInstance was called again.
C21_Witness ==
  /\ pc = "Confirm"
  /\ attempt = 0
  /\ teardown_calls.ListInstances >= 2
  /\ teardown_calls.last = Event("DeleteInstance", instance_names)
  /\ teardown_calls.sleep

(***************************************************************************)
(* The RPC key.                                                            *)
(***************************************************************************)
\* What the receiver of a request reads as a value: '+' is a space and
\* '%2F' is a '/'.
UnquotePlus(value) ==
  [k \in 1..Len(value) |->
     IF value[k] = "+" THEN " "
     ELSE IF value[k] = "%2Fvar%2Flog%2FSTARTUP_SCRIPT_DONE" THEN DONE_FILE
     ELSE value[k]]

\* The key a request carries, as its receiver reads it.
KeyOfRequest(request) == UnquotePlus(request[6])

\* The rpckey the provider delivered to the instance of that name.
DeliveredKeys(name) ==
  {gce_instances[k].metadata["rpckey"] :
     k \in {j \in 1..Len(gce_instances) : gce_instances[j].name = name}}

\* C22: the rpckey of every InstanceInfo is the one the metadata of its
\* instance carried at CreateInstance; every _StartInstance call draws a
\* key of its own, so no two InstanceInfo entities share one; and every
\* warm-up request carries the key of the master's InstanceInfo, which is
\* the key that was delivered to the master.
C22_OneKeyPerNodeDeliveredAndPersisted ==
  /\ \A k \in 1..Len(instance_infos) :
       DeliveredKeys(instance_infos[k].name) = {instance_infos[k].rpckey}
  /\ \A j, k \in 1..Len(instance_infos) :
       j /= k => instance_infos[j].rpckey /= instance_infos[k].rpckey
  /\ \A k \in 1..Len(gce_instances) :
       /\ gce_instances[k].metadata["rpckey"] \in
            {Uuid4(n) : n \in 1..uuid_count}
       /\ \A j \in 1..Len(gce_instances) :
            j /= k => gce_instances[j].metadata["rpckey"] /=
                        gce_instances[k].metadata["rpckey"]
  /\ \A request \in Range(ArgsOf(log, "HttpRequest")) :
       /\ cluster_info.master /= 0
       /\ instance_infos[cluster_info.master].name = master_name
       /\ KeyOfRequest(request) = instance_infos[cluster_info.master].rpckey
       /\ DeliveredKeys(master_name) = {KeyOfRequest(request)}
       /\ request = RpcRequest(instance_infos[cluster_info.master].external_ip,
                               instance_infos[cluster_info.master].rpckey,
                               <<"cat", " ", DONE_FILE>>)

\* A cluster of a master and two workers whose master was polled.
C22_Witness ==
  /\ Len(instance_infos) = 3
  /\ ArgsOf(log, "HttpRequest") /= <<>>
  /\ KeyOfRequest(ArgsOf(log, "HttpRequest")[1]) = instance_infos[1].rpckey
  /\ pc = "done"
  /\ exc = None
====
